---- MODULE Spec2Model ----
(***************************************************************************)
(* Model of the financial calculation engine of finbot                     *)
(* (src/src/tools/financial_calc.py): request parser, calculator set,      *)
(* ratio catalog, response formatter and dispatcher.                       *)
(*                                                                         *)
(* Conventions                                                             *)
(*  - a Python str is a sequence of one-character strings;                 *)
(*  - a Python number is a record [t, n, d]: t is "int" or "float", n/d is *)
(*    its exact value in lowest terms (d > 0); d = 0 is float nan;         *)
(*  - every Python value is a record with a tag field t;                   *)
(*  - a raised exception is the value [t |-> "exc", name |-> ...];          *)
(*  - rendered text is a sequence of lines, a line a sequence of pieces.   *)
(***************************************************************************)
EXTENDS Integers, Sequences, FiniteSets, TLC

\* ------------------------------------------------------------------------
\* Bounds of the model
\* ------------------------------------------------------------------------
\* positional tokens after the type token
MaxArgs == 3
\* numeric tokens after a ratio name
MaxValues == 3
\* entries of a structured cash-flow list
MaxFlows == 2

\* ------------------------------------------------------------------------
\* Python str: character sequences
\* ------------------------------------------------------------------------
UpperLetters == <<"A","B","C","D","E","F","G","H","I","J","K","L","M",
                  "N","O","P","Q","R","S","T","U","V","W","X","Y","Z">>
LowerLetters == <<"a","b","c","d","e","f","g","h","i","j","k","l","m",
                  "n","o","p","q","r","s","t","u","v","w","x","y","z">>
Digits == <<"0","1","2","3","4","5","6","7","8","9">>

IsUpper(c) == \E i \in 1..26 : UpperLetters[i] = c
IsLower(c) == \E i \in 1..26 : LowerLetters[i] = c
IsDigit(c) == \E i \in 1..10 : Digits[i] = c
DigitVal(c) == (CHOOSE i \in 1..10 : Digits[i] = c) - 1

LowerChar(c) ==
    IF IsUpper(c) THEN LowerLetters[CHOOSE i \in 1..26 : UpperLetters[i] = c]
    ELSE c
UpperChar(c) ==
    IF IsLower(c) THEN UpperLetters[CHOOSE i \in 1..26 : LowerLetters[i] = c]
    ELSE c

\* str.lower()
Lower(s) == [i \in 1..Len(s) |-> LowerChar(s[i])]
\* str.upper() and str.capitalize(), used to build the inputs
Upper(s) == [i \in 1..Len(s) |-> UpperChar(s[i])]
Capitalize(s) == [i \in 1..Len(s) |-> IF i = 1 THEN UpperChar(s[i]) ELSE LowerChar(s[i])]

RECURSIVE SplitAcc(_, _, _, _)
SplitAcc(s, i, cur, acc) ==
    IF i > Len(s)
    THEN (IF cur = <<>> THEN acc ELSE Append(acc, cur))
    ELSE IF s[i] = " "
         THEN SplitAcc(s, i + 1, <<>>, IF cur = <<>> THEN acc ELSE Append(acc, cur))
         ELSE SplitAcc(s, i + 1, Append(cur, s[i]), acc)
\* query.strip().split()
Split(s) == SplitAcc(s, 1, <<>>, <<>>)

RECURSIVE JoinSp(_)
\* " ".join(tokens)
JoinSp(toks) ==
    IF toks = <<>> THEN <<>>
    ELSE IF Len(toks) = 1 THEN toks[1]
    ELSE toks[1] \o <<" ">> \o JoinSp(Tail(toks))

\* "=" in part
HasEq(part) == \E i \in 1..Len(part) : part[i] = "="
FirstEq(part) == CHOOSE i \in 1..Len(part) :
                    part[i] = "=" /\ \A j \in 1..(i - 1) : part[j] # "="
\* part.split("=", 1)
SplitEqKey(part) == SubSeq(part, 1, FirstEq(part) - 1)
SplitEqValue(part) == SubSeq(part, FirstEq(part) + 1, Len(part))

\* ------------------------------------------------------------------------
\* String literals of the source
\* ------------------------------------------------------------------------
s_type == <<"t","y","p","e">>
s_roi == <<"r","o","i">>
s_retorno == <<"r","e","t","o","r","n","o">>
s_compuesto == <<"c","o","m","p","u","e","s","t","o">>
s_interes_compuesto == <<"i","n","t","e","r","e","s","_">> \o s_compuesto
s_prestamo == <<"p","r","e","s","t","a","m","o">>
s_loan == <<"l","o","a","n">>
s_ratio == <<"r","a","t","i","o">>
s_ratios == <<"r","a","t","i","o","s">>
s_npv == <<"n","p","v">>
s_van == <<"v","a","n">>
s_irr == <<"i","r","r">>
s_tir == <<"t","i","r">>
s_compare == <<"c","o","m","p","a","r","e">>
s_comparar == <<"c","o","m","p","a","r","a","r">>
s_initial == <<"i","n","i","t","i","a","l">>
s_final == <<"f","i","n","a","l">>
s_principal == <<"p","r","i","n","c","i","p","a","l">>
s_rate == <<"r","a","t","e">>
s_periods == <<"p","e","r","i","o","d","s">>
s_frequency == <<"f","r","e","q","u","e","n","c","y">>
s_ratio_name == <<"r","a","t","i","o","_","n","a","m","e">>
s_values == <<"v","a","l","u","e","s">>
s_cash_flows == <<"c","a","s","h","_","f","l","o","w","s">>
s_metric == <<"m","e","t","r","i","c">>
s_tickers == <<"t","i","c","k","e","r","s">>
s_annual == <<"a","n","n","u","a","l">>
s_semiannual == <<"s","e","m","i">> \o s_annual
s_quarterly == <<"q","u","a","r","t","e","r","l","y">>
s_monthly == <<"m","o","n","t","h","l","y">>
s_daily == <<"d","a","i","l","y">>
s_current == <<"c","u","r","r","e","n","t">>
s_quick == <<"q","u","i","c","k">>
s_debt == <<"d","e","b","t">>
s_roe == <<"r","o","e">>
s_roa == <<"r","o","a">>
s_profit_margin == <<"p","r","o","f","i","t","_","m","a","r","g","i","n">>
s_pe == <<"p","e">>
s_pb == <<"p","b">>

\* ------------------------------------------------------------------------
\* Python numbers: exact rationals tagged int or float
\* ------------------------------------------------------------------------
Abs(x) == IF x < 0 THEN -x ELSE x

RECURSIVE GCD(_, _)
GCD(a, b) == IF b = 0 THEN a ELSE GCD(b, a % b)

\* the number n/d in lowest terms with the tag t
Num(t, n, d) ==
    LET g == GCD(Abs(n), Abs(d))
        sg == IF d < 0 THEN -1 ELSE 1
    IN [t |-> t, n |-> sg * (n \div g), d |-> sg * (d \div g)]
PyInt(n) == [t |-> "int", n |-> n, d |-> 1]
PyFloat(n, d) == Num("float", n, d)
NaN == [t |-> "float", n |-> 0, d |-> 0]
PyStr(s) == [t |-> "str", s |-> s]
PyList(v) == [t |-> "list", v |-> v]
PyDict(v) == [t |-> "dict", v |-> v]
PyNone == [t |-> "None"]
Exc(name, msg) == [t |-> "exc", name |-> name, msg |-> msg]

IsExc(v) == v.t = "exc"
IsNum(v) == v.t \in {"int", "float"}
IsNaN(v) == IsNum(v) /\ v.d = 0
IsStr(v) == v.t = "str"

\* the tag of the result of +, - and * on two numbers
ArithTag(a, b) == IF a.t = "float" \/ b.t = "float" THEN "float" ELSE "int"

RECURSIVE IntPow(_, _)
IntPow(b, k) ==
    IF k = 0 THEN 1
    ELSE LET h == IntPow(b, k \div 2)
         IN IF k % 2 = 0 THEN h * h ELSE b * h * h

\* the smallest positive float (5e-324 in Python), scaled to the integers of
\* the model: 1/SmallestDen
SmallestDen == IntPow(2, 24)
MinFloat == [t |-> "float", n |-> 1, d |-> SmallestDen]

NumAdd(a, b) ==
    IF IsNaN(a) \/ IsNaN(b) THEN NaN
    ELSE LET g == GCD(a.d, b.d)
         IN Num(ArithTag(a, b), a.n * (b.d \div g) + b.n * (a.d \div g), (a.d \div g) * b.d)
NumNeg(a) == IF IsNaN(a) THEN NaN ELSE [t |-> a.t, n |-> -a.n, d |-> a.d]
NumSub(a, b) == NumAdd(a, NumNeg(b))
NumMul(a, b) ==
    IF IsNaN(a) \/ IsNaN(b) THEN NaN
    ELSE LET g1 == GCD(Abs(a.n), b.d)
             g2 == GCD(Abs(b.n), a.d)
             n == (a.n \div g1) * (b.n \div g2)
             d == (a.d \div g2) * (b.d \div g1)
             \* a float product or quotient below half the smallest positive
             \* float underflows to zero
             underflow == /\ ArithTag(a, b) = "float" /\ n # 0
                          /\ (d - 1) \div (2 * SmallestDen) >= Abs(n)
         IN IF underflow THEN [t |-> "float", n |-> 0, d |-> 1]
            ELSE Num(ArithTag(a, b), n, d)
\* a / b for b # 0: true division, always a float
NumDiv(a, b) ==
    IF IsNaN(a) \/ IsNaN(b) THEN NaN
    ELSE LET inv == IF b.n < 0 THEN [t |-> "float", n |-> -b.d, d |-> -b.n]
                    ELSE [t |-> "float", n |-> b.d, d |-> b.n]
             r == NumMul(a, inv)
         IN Num("float", r.n, r.d)
NumAbs(a) == IF IsNaN(a) THEN NaN ELSE [t |-> a.t, n |-> Abs(a.n), d |-> a.d]
NumIsZero(a) == ~IsNaN(a) /\ a.n = 0
\* comparisons; every comparison with nan is false
NumLt(a, b) ==
    /\ ~IsNaN(a) /\ ~IsNaN(b)
    /\ LET g == GCD(a.d, b.d) IN a.n * (b.d \div g) < b.n * (a.d \div g)
NumLe(a, b) ==
    /\ ~IsNaN(a) /\ ~IsNaN(b)
    /\ LET g == GCD(a.d, b.d) IN a.n * (b.d \div g) <= b.n * (a.d \div g)
NumGt(a, b) == NumLt(b, a)
NumGe(a, b) == NumLe(b, a)

\* the square root of a perfect square
ISqrt(x) == CHOOSE r \in 0..x : r * r = x
\* base ** k and math.pow(base, k); the result is a float. The exponent is
\* integral (the base not zero when k < 0), or a positive multiple of 1/2
\* with a base that is the square of a rational
NumPow(base, k) ==
    IF IsNaN(base) \/ IsNaN(k) THEN NaN
    ELSE IF k.d = 2
         THEN [t |-> "float", n |-> IntPow(ISqrt(base.n), k.n), d |-> IntPow(ISqrt(base.d), k.n)]
    ELSE IF k.n >= 0
         THEN [t |-> "float", n |-> IntPow(base.n, k.n), d |-> IntPow(base.d, k.n)]
         ELSE Num("float", IntPow(base.d, -k.n), IntPow(base.n, -k.n))
\* int() that rounds a fractional value away from zero
NumTrunc_ceiling(a) ==
    IF a.n >= 0 THEN (a.n + a.d - 1) \div a.d ELSE -((-a.n + a.d - 1) \div a.d)
\* int(x): truncation towards zero
NumTrunc(a) == IF a.n >= 0 THEN a.n \div a.d ELSE -((-a.n) \div a.d)

Zero == PyInt(0)
Hundred == PyInt(100)

\* the token of the smallest positive float
tok_min_float == <<"5","e","-","3","2","4">>

\* float(token) for the tokens [sign] digits [. digits] and the smallest
\* positive float; another token is a ValueError
float(tok) ==
    LET signed == Len(tok) > 0 /\ tok[1] \in {"-", "+"}
        body == IF signed THEN Tail(tok) ELSE tok
        dots == {i \in 1..Len(body) : body[i] = "."}
        wellformed == /\ Cardinality(dots) <= 1
                      /\ \A i \in 1..Len(body) : body[i] = "." \/ IsDigit(body[i])
                      /\ \E i \in 1..Len(body) : IsDigit(body[i])
        digs == SelectSeq(body, IsDigit)
        fracLen == IF dots = {} THEN 0 ELSE Len(body) - (CHOOSE i \in dots : TRUE)
        mag[i \in 0..Len(digs)] == IF i = 0 THEN 0 ELSE 10 * mag[i - 1] + DigitVal(digs[i])
        sgn == IF signed /\ tok[1] = "-" THEN -1 ELSE 1
    IN IF tok = tok_min_float THEN MinFloat
       ELSE IF wellformed THEN PyFloat(sgn * mag[Len(digs)], IntPow(10, fracLen))
       ELSE Exc("ValueError", "could not convert string to float")

\* ------------------------------------------------------------------------
\* Python dict with str keys: a function from keys to values
\* ------------------------------------------------------------------------
EmptyDict == [k \in {} |-> PyNone]
DictSet(d, k, v) == [x \in (DOMAIN d) \cup {k} |-> IF x = k THEN v ELSE d[x]]
\* the dict literal {k1: v1, ...} from a sequence of <<key, value>> pairs,
\* a later pair overwriting an earlier one
RECURSIVE DictOf(_)
DictOf(pairs) ==
    IF pairs = <<>> THEN EmptyDict
    ELSE LET n == Len(pairs)
         IN DictSet(DictOf(SubSeq(pairs, 1, n - 1)), pairs[n][1], pairs[n][2])

\* ------------------------------------------------------------------------
\* The raw query.  A query is either text that json.loads may reject
\* ([kind |-> "text", text |-> chars]) or the serialisation of a JSON
\* document with structure ([kind |-> "json", doc |-> document]); a document
\* is [j |-> "object", members |-> <<<<key, document>>, ...>>],
\* [j |-> "array", items |-> <<document, ...>>], [j |-> "string", s |-> chars],
\* [j |-> "number", n |-> integer, frac |-> BOOLEAN] or [j |-> "null"].
\* ------------------------------------------------------------------------
JObject(members) == [j |-> "object", members |-> members]
JArray(items) == [j |-> "array", items |-> items]
JString(s) == [j |-> "string", s |-> s]
JInt(n) == [j |-> "number", n |-> n, frac |-> FALSE]
JReal(n) == [j |-> "number", n |-> n, frac |-> TRUE]
JNull == [j |-> "null"]

RECURSIVE Decode(_)
\* the Python value json.loads builds for a document: object -> dict,
\* array -> list, string -> str, number -> int or float, null -> None
Decode(doc) ==
    CASE doc.j = "object" ->
           PyDict(DictOf([i \in 1..Len(doc.members) |->
                            <<doc.members[i][1], Decode(doc.members[i][2])>>]))
      [] doc.j = "array" -> PyList([i \in 1..Len(doc.items) |-> Decode(doc.items[i])])
      [] doc.j = "string" -> PyStr(doc.s)
      [] doc.j = "number" -> IF doc.frac THEN PyFloat(doc.n, 1) ELSE PyInt(doc.n)
      [] doc.j = "null" -> PyNone

\* a token that is a JSON number literal: -?digits(.digits)? without a
\* leading zero, a leading + or a bare dot
IsJSONNumber(tok) ==
    LET body == IF Len(tok) > 0 /\ tok[1] = "-" THEN Tail(tok) ELSE tok
    IN /\ ~IsExc(float(tok))
       /\ Len(body) > 0 /\ IsDigit(body[1]) /\ IsDigit(body[Len(body)])
       /\ ~(Len(body) > 1 /\ body[1] = "0" /\ body[2] # ".")
       /\ tok[1] # "+"

json_loads(query) ==
    IF query.kind = "json" THEN Decode(query.doc)
    ELSE LET toks == Split(query.text)
         IN IF Len(toks) = 1 /\ IsJSONNumber(toks[1])
            THEN (IF \E i \in 1..Len(toks[1]) : toks[1][i] = "."
                  THEN float(toks[1])
                  ELSE [float(toks[1]) EXCEPT !.t = "int"])
            ELSE Exc("JSONDecodeError", "Expecting value")

\* ------------------------------------------------------------------------
\* parse_text_query
\* ------------------------------------------------------------------------
\* params[k] = v on the dict params
PSet(params, k, v) == PyDict(DictSet(params.v, k, v))

RECURSIVE AssignFloats(_, _)
\* params[k1] = float(tok1); params[k2] = float(tok2); ...  in order,
\* stopping at the first ValueError
AssignFloats(params, pairs) ==
    IF pairs = <<>> THEN params
    ELSE LET v == float(pairs[1][2])
         IN IF IsExc(v) THEN v
            ELSE AssignFloats(PSet(params, pairs[1][1], v), Tail(pairs))

\* FloatList dropping the tokens that are not numbers instead of raising
FloatList_skip(toks) ==
    LET IsNumber(tok) == ~IsExc(float(tok))
        kept == SelectSeq(toks, IsNumber)
    IN PyList([i \in 1..Len(kept) |-> float(kept[i])])

\* [float(p) for p in toks]
FloatList(toks) ==
    LET fs == [i \in 1..Len(toks) |-> float(toks[i])]
    IN IF \E i \in 1..Len(toks) : IsExc(fs[i])
       THEN fs[CHOOSE i \in 1..Len(toks) : IsExc(fs[i]) /\ \A j \in 1..(i - 1) : ~IsExc(fs[j])]
       ELSE PyList(fs)

\* parts[i:] with the 0-based index i of the source
From(parts, i) == SubSeq(parts, i + 1, Len(parts))

RECURSIVE CaptureKeyValues_keep_first(_, _)
\* CaptureKeyValues keeping the value a key already has
CaptureKeyValues_keep_first(params, rest) ==
    IF rest = <<>> THEN params
    ELSE LET part == rest[1]
             v == float(SplitEqValue(part))
         IN IF HasEq(part) /\ SplitEqKey(part) \notin DOMAIN params.v
            THEN CaptureKeyValues_keep_first(
                   PSet(params, SplitEqKey(part),
                        IF IsExc(v) THEN PyStr(SplitEqValue(part)) ELSE v),
                   Tail(rest))
            ELSE CaptureKeyValues_keep_first(params, Tail(rest))

RECURSIVE CaptureKeyValues(_, _)
\* the loop over parts[1:] of the branch for any other type
CaptureKeyValues(params, rest) ==
    IF rest = <<>> THEN params
    ELSE LET part == rest[1]
             v == float(SplitEqValue(part))
         IN IF HasEq(part)
            THEN CaptureKeyValues(
                   PSet(params, SplitEqKey(part),
                        IF IsExc(v) THEN PyStr(SplitEqValue(part)) ELSE v),
                   Tail(rest))
            ELSE CaptureKeyValues(params, Tail(rest))

\* the params dict, or the exception raised
parse_text_query(text) ==
    LET parts == Split(text)
        calc_type == Lower(parts[1])
        params == PSet(PyDict(EmptyDict), s_type, PyStr(calc_type))
        n == Len(parts)
    IN IF parts = <<>> THEN Exc("ValueError", "Consulta vacia")
       ELSE IF calc_type \in {s_roi, s_retorno}
       THEN (IF n >= 3
             THEN AssignFloats(params, << <<s_initial, parts[2]>>, <<s_final, parts[3]>> >>)
             ELSE params)
       ELSE IF calc_type \in {s_compuesto, s_interes_compuesto}
       THEN (IF n >= 4
             THEN LET p3 == AssignFloats(params, << <<s_principal, parts[2]>>,
                                                    <<s_rate, parts[3]>>,
                                                    <<s_periods, parts[4]>> >>)
                  IN IF IsExc(p3) THEN p3
                     ELSE IF n >= 5 THEN PSet(p3, s_frequency, PyStr(parts[5]))
                     ELSE p3
             ELSE params)
       ELSE IF calc_type \in {s_prestamo, s_loan}
       THEN (IF n >= 4
             THEN AssignFloats(params, << <<s_principal, parts[2]>>,
                                          <<s_rate, parts[3]>>,
                                          <<s_periods, parts[4]>> >>)
             ELSE params)
       ELSE IF calc_type \in {s_ratio, s_ratios}
       THEN (IF n >= 2
             THEN LET vs == FloatList(From(parts, 2))
                  IN IF IsExc(vs) THEN vs
                     ELSE PSet(PSet(params, s_ratio_name, PyStr(parts[2])), s_values, vs)
             ELSE params)
       ELSE IF calc_type \in {s_npv, s_van}
       THEN (IF n >= 3
             THEN LET p1 == AssignFloats(params, << <<s_rate, parts[2]>> >>)
                      cfs == FloatList(From(parts, 2))
                  IN IF IsExc(p1) THEN p1
                     ELSE IF IsExc(cfs) THEN cfs
                     ELSE PSet(p1, s_cash_flows, cfs)
             ELSE params)
       ELSE IF calc_type \in {s_irr, s_tir}
       THEN (IF n >= 2
             THEN LET cfs == FloatList(From(parts, 1))
                  IN IF IsExc(cfs) THEN cfs ELSE PSet(params, s_cash_flows, cfs)
             ELSE params)
       ELSE IF calc_type \in {s_compare, s_comparar}
       THEN (IF n >= 3
             THEN PSet(PSet(params, s_metric, PyStr(parts[2])), s_tickers,
                       PyList([i \in 1..(n - 2) |-> PyStr(parts[i + 2])]))
             ELSE params)
       ELSE CaptureKeyValues(params, From(parts, 1))

\* ------------------------------------------------------------------------
\* parse_calculation_request
\* ------------------------------------------------------------------------
\* sub in s for two str
IsSubstring(sub, s) ==
    \E i \in 0..(Len(s) - Len(sub)) : SubSeq(s, i + 1, i + Len(sub)) = sub

\* rendered text: a piece is a literal or a formatted value, a string of
\* the output is a sequence of pieces
Lit(s) == [f |-> "lit", lit |-> s]
\* str(e) of an exception
ExcText(e) == <<Lit(e.msg)>>

\* "type" in params, for a dict, a list or a str
TypeIn(params) ==
    CASE params.t = "dict" -> s_type \in DOMAIN params.v
      [] params.t = "list" -> \E i \in 1..Len(params.v) : params.v[i] = PyStr(s_type)
      [] params.t = "str" -> IsSubstring(s_type, params.s)

msg_missing_type == <<Lit("Se requiere especificar el tipo de calculo.")>>

Failure(error) == [success |-> FALSE, error |-> error]
ParseSuccess(params) == [success |-> TRUE, params |-> params]

parse_calculation_request(query) ==
    LET loaded == json_loads(query)
        params == IF IsExc(loaded) THEN parse_text_query(query.text) ELSE loaded
    IN IF IsExc(params) THEN Failure(ExcText(params))
       ELSE IF params.t \notin {"dict", "list", "str"}
       THEN Failure(ExcText(Exc("TypeError", "argument is not iterable")))
       ELSE IF ~TypeIn(params) THEN Failure(msg_missing_type)
       ELSE ParseSuccess(params)

\* ------------------------------------------------------------------------
\* Formatting of values inside f-strings
\* ------------------------------------------------------------------------
\* the value times 100 rounded to the nearest integer: the whole part and
\* the remainder apart, which keeps the products small
RoundCents(x) == 100 * (x.n \div x.d) + (200 * (x.n % x.d) + x.d) \div (2 * x.d)
\* f"{x:.2f}": an int and a float of the same value render alike
F2(x) == IF IsNaN(x) THEN Lit("nan") ELSE [f |-> "2f", cents |-> RoundCents(x)]
\* f"{x}": str(x); an int renders as 2, the float of the same value as 2.0
FStr(x) == IF IsStr(x) THEN [f |-> "s", s |-> x.s]
           ELSE [f |-> "repr", t |-> x.t, n |-> x.n, d |-> x.d]

TypeErr == Exc("TypeError", "unsupported operand type(s)")
Success(result) == [success |-> TRUE, result |-> result]

\* ------------------------------------------------------------------------
\* calculate_roi
\* ------------------------------------------------------------------------
msg_roi_initial == <<Lit("La inversion inicial debe ser mayor que cero.")>>

\* calculate_roi computing before it validates: the failure carries a result
calculate_roi_partial(initial_investment, final_value) ==
    IF ~IsNum(initial_investment) \/ ~IsNum(final_value) THEN TypeErr
    ELSE LET profit_loss == NumSub(final_value, initial_investment)
         IN IF NumLe(initial_investment, Zero)
            THEN [success |-> FALSE, error |-> msg_roi_initial,
                  result |-> [profit_loss |-> profit_loss]]
            ELSE LET roi == NumDiv(profit_loss, initial_investment)
                 IN Success([roi |-> roi,
                             roi_percent |-> NumMul(roi, Hundred),
                             initial_investment |-> initial_investment,
                             final_value |-> final_value,
                             profit_loss |-> profit_loss])

\* calculate_roi with roi_percent left as the fraction
calculate_roi_unscaled(initial_investment, final_value) ==
    IF ~IsNum(initial_investment) THEN TypeErr
    ELSE IF NumLe(initial_investment, Zero) THEN Failure(msg_roi_initial)
    ELSE IF ~IsNum(final_value) THEN TypeErr
    ELSE LET roi == NumDiv(NumSub(final_value, initial_investment), initial_investment)
         IN Success([roi |-> roi,
                     roi_percent |-> roi,
                     initial_investment |-> initial_investment,
                     final_value |-> final_value,
                     profit_loss |-> NumSub(final_value, initial_investment)])

calculate_roi(initial_investment, final_value) ==
    IF ~IsNum(initial_investment) THEN TypeErr
    ELSE IF NumLe(initial_investment, Zero) THEN Failure(msg_roi_initial)
    ELSE IF ~IsNum(final_value) THEN TypeErr
    ELSE LET roi == NumDiv(NumSub(final_value, initial_investment), initial_investment)
             roi_percent == NumMul(roi, Hundred)
         IN Success([roi |-> roi,
                     roi_percent |-> roi_percent,
                     initial_investment |-> initial_investment,
                     final_value |-> final_value,
                     profit_loss |-> NumSub(final_value, initial_investment)])

\* ------------------------------------------------------------------------
\* calculate_compound_interest
\* ------------------------------------------------------------------------
msg_ci_principal == <<Lit("El capital inicial debe ser mayor que cero.")>>
msg_rate == <<Lit("La tasa de interes debe ser mayor que cero.")>>

\* frequency_map.get(name, 1)
\* a frequency map in which every name counts as annual
frequency_map_annual_only(name) == 1
frequency_map(name) ==
    CASE name = s_annual -> 1
      [] name = s_semiannual -> 2
      [] name = s_quarterly -> 4
      [] name = s_monthly -> 12
      [] name = s_daily -> 365
      [] OTHER -> 1

\* math.pow is modelled for an integral exponent (the inputs of the model
\* keep compound_frequency * periods integral)
calculate_compound_interest(principal, rate, periods, frequency) ==
    IF ~IsNum(principal) THEN TypeErr
    ELSE IF NumLe(principal, Zero) THEN Failure(msg_ci_principal)
    ELSE IF ~IsNum(rate) THEN TypeErr
    ELSE IF NumLe(rate, Zero) THEN Failure(msg_rate)
    ELSE IF ~IsStr(frequency) THEN Exc("AttributeError", "object has no attribute 'lower'")
    ELSE IF ~IsNum(periods) THEN TypeErr
    ELSE LET rate_decimal == NumDiv(rate, Hundred)
             compound_frequency == frequency_map(Lower(frequency.s))
             n == NumMul(PyInt(compound_frequency), periods)
             r == NumDiv(rate_decimal, PyInt(compound_frequency))
             final_amount == NumMul(principal, NumPow(NumAdd(PyInt(1), r), n))
             interest_earned == NumSub(final_amount, principal)
         IN Success([principal |-> principal,
                     rate |-> rate,
                     periods |-> periods,
                     frequency |-> frequency,
                     compound_frequency |-> PyInt(compound_frequency),
                     final_amount |-> final_amount,
                     interest_earned |-> interest_earned])

\* ------------------------------------------------------------------------
\* calculate_loan_payment
\* ------------------------------------------------------------------------
msg_loan_principal == <<Lit("El monto del prestamo debe ser mayor que cero.")>>
msg_periods == <<Lit("El numero de periodos debe ser mayor que cero.")>>

Min(a, b) == IF a < b THEN a ELSE b

\* max(0, x)
Max0(x) == IF NumGt(x, Zero) THEN x ELSE Zero

\* Retained with the last window one period too wide
Retained_off_by_one(period, periods) ==
    period <= 5 \/ NumGe(PyInt(period), NumSub(periods, PyInt(5)))

\* the retention test of the amortization loop
Retained(period, periods) ==
    period <= 5 \/ NumGt(PyInt(period), NumSub(periods, PyInt(5)))

RECURSIVE AmortizationLoop_no_interest_split(_, _, _, _, _)
\* the loop with the whole payment taken as principal
AmortizationLoop_no_interest_split(period, periods, monthly_rate, monthly_payment, st) ==
    IF period > NumTrunc(periods) THEN st
    ELSE LET interest_payment == NumMul(st.remaining_balance, monthly_rate)
             remaining_balance == NumSub(st.remaining_balance, monthly_payment)
             entry == [periodo |-> period,
                       pago |-> monthly_payment,
                       principal |-> monthly_payment,
                       interes |-> interest_payment,
                       balance_restante |-> Max0(remaining_balance)]
         IN AmortizationLoop_no_interest_split(period + 1, periods, monthly_rate, monthly_payment,
               [remaining_balance |-> remaining_balance,
                total_interest |-> NumAdd(st.total_interest, interest_payment),
                amortization_schedule |->
                    IF Retained(period, periods)
                    THEN Append(st.amortization_schedule, entry)
                    ELSE st.amortization_schedule])

RECURSIVE AmortizationLoop(_, _, _, _, _)
\* the state [remaining_balance, total_interest, amortization_schedule]
\* after the iterations period..int(periods) of the loop
AmortizationLoop(period, periods, monthly_rate, monthly_payment, st) ==
    IF period > NumTrunc(periods) THEN st
    ELSE LET interest_payment == NumMul(st.remaining_balance, monthly_rate)
             principal_payment == NumSub(monthly_payment, interest_payment)
             remaining_balance == NumSub(st.remaining_balance, principal_payment)
             total_interest == NumAdd(st.total_interest, interest_payment)
             entry == [periodo |-> period,
                       pago |-> monthly_payment,
                       principal |-> principal_payment,
                       interes |-> interest_payment,
                       balance_restante |-> Max0(remaining_balance)]
         IN AmortizationLoop(period + 1, periods, monthly_rate, monthly_payment,
               [remaining_balance |-> remaining_balance,
                total_interest |-> total_interest,
                amortization_schedule |->
                    IF Retained(period, periods)
                    THEN Append(st.amortization_schedule, entry)
                    ELSE st.amortization_schedule])

\* monthly_rate = (rate / 100) / 12
MonthlyRate(rate) == NumDiv(NumDiv(rate, Hundred), PyInt(12))

\* the level-payment formula, for a monthly rate that is not zero
LevelPayment(principal, monthly_rate, periods) ==
    LET growth == NumPow(NumAdd(PyInt(1), monthly_rate), periods)
    IN NumDiv(NumMul(principal, NumMul(monthly_rate, growth)), NumSub(growth, PyInt(1)))

\* MonthlyPayment with a zero-rate branch that forgets to divide by periods
MonthlyPayment_undivided(principal, monthly_rate, periods) ==
    IF NumIsZero(monthly_rate) THEN NumDiv(principal, PyInt(1))
    ELSE LevelPayment(principal, monthly_rate, periods)

\* the monthly payment: principal / periods when the monthly rate is zero,
\* else the level-payment formula
MonthlyPayment(principal, monthly_rate, periods) ==
    IF NumIsZero(monthly_rate) THEN NumDiv(principal, periods)
    ELSE LevelPayment(principal, monthly_rate, periods)

\* the computation of calculate_loan_payment after its validation
LoanResult(principal, rate, periods) ==
    LET monthly_rate == MonthlyRate(rate)
        monthly_payment == MonthlyPayment(principal, monthly_rate, periods)
        st == AmortizationLoop(1, periods, monthly_rate, monthly_payment,
                  [remaining_balance |-> principal,
                   total_interest |-> Zero,
                   amortization_schedule |-> <<>>])
    IN Success([principal |-> principal,
                rate |-> rate,
                periods |-> periods,
                monthly_payment |-> monthly_payment,
                total_payments |-> NumMul(monthly_payment, periods),
                total_interest |-> st.total_interest,
                amortization_sample |-> st.amortization_schedule])

\* calculate_loan_payment testing the rate before the principal
calculate_loan_payment_rate_first(principal, rate, periods) ==
    IF ~IsNum(rate) THEN TypeErr
    ELSE IF NumLe(rate, Zero) THEN Failure(msg_rate)
    ELSE IF ~IsNum(principal) THEN TypeErr
    ELSE IF NumLe(principal, Zero) THEN Failure(msg_loan_principal)
    ELSE IF ~IsNum(periods) THEN TypeErr
    ELSE IF NumLe(periods, Zero) THEN Failure(msg_periods)
    ELSE LoanResult(principal, rate, periods)

calculate_loan_payment(principal, rate, periods) ==
    IF ~IsNum(principal) THEN TypeErr
    ELSE IF NumLe(principal, Zero) THEN Failure(msg_loan_principal)
    ELSE IF ~IsNum(rate) THEN TypeErr
    ELSE IF NumLe(rate, Zero) THEN Failure(msg_rate)
    ELSE IF ~IsNum(periods) THEN TypeErr
    ELSE IF NumLe(periods, Zero) THEN Failure(msg_periods)
    ELSE LoanResult(principal, rate, periods)

\* ------------------------------------------------------------------------
\* Outcomes and iteration helpers
\* ------------------------------------------------------------------------
\* a calculator either returns an outcome record or raises
Raised(o) == "t" \in DOMAIN o /\ o.t = "exc"

\* the items a for loop draws from a list or a str
Items(v) == IF v.t = "list" THEN v.v ELSE [i \in 1..Len(v.s) |-> PyStr(<<v.s[i]>>)]
IsIterable(v) == v.t \in {"list", "str"}
\* not v
Falsy(v) ==
    CASE v.t = "list" -> v.v = <<>>
      [] v.t = "str" -> v.s = <<>>
      [] v.t = "None" -> TRUE
      [] v.t \in {"int", "float"} -> NumIsZero(v)
      [] OTHER -> FALSE

\* ------------------------------------------------------------------------
\* calculate_financial_ratio and its catalog
\* ------------------------------------------------------------------------
\* the catalog without its last ratio
ratio_names_without_pb == <<s_current, s_quick, s_debt, s_roe, s_roa, s_profit_margin, s_pe>>

ratio_names == <<s_current, s_quick, s_debt, s_roe, s_roa, s_profit_margin, s_pe, s_pb>>

\* a label is the sequence of its words
ratios(name) ==
    CASE name = s_current ->
           [description |-> "Ratio de liquidez corriente (Activo Corriente / Pasivo Corriente)",
            required_values |-> 2,
            labels |-> << <<"Activo", "Corriente">>, <<"Pasivo", "Corriente">> >>]
      [] name = s_quick ->
           [description |-> "Ratio de prueba acida ((Activo Corriente - Inventarios) / Pasivo Corriente)",
            required_values |-> 3,
            labels |-> << <<"Activo", "Corriente">>, <<"Inventarios">>, <<"Pasivo", "Corriente">> >>]
      [] name = s_debt ->
           [description |-> "Ratio de endeudamiento (Pasivo Total / Activo Total)",
            required_values |-> 2,
            labels |-> << <<"Pasivo", "Total">>, <<"Activo", "Total">> >>]
      [] name = s_roe ->
           [description |-> "Return on Equity - ROE (Beneficio Neto / Patrimonio Neto)",
            required_values |-> 2,
            labels |-> << <<"Beneficio", "Neto">>, <<"Patrimonio", "Neto">> >>]
      [] name = s_roa ->
           [description |-> "Return on Assets - ROA (Beneficio Neto / Activos Totales)",
            required_values |-> 2,
            labels |-> << <<"Beneficio", "Neto">>, <<"Activos", "Totales">> >>]
      [] name = s_profit_margin ->
           [description |-> "Margen de Beneficio Neto (Beneficio Neto / Ventas Netas)",
            required_values |-> 2,
            labels |-> << <<"Beneficio", "Neto">>, <<"Ventas", "Netas">> >>]
      [] name = s_pe ->
           [description |-> "Price-to-Earnings Ratio (Precio por Accion / Beneficio por Accion)",
            required_values |-> 2,
            labels |-> << <<"Precio", "por", "Accion">>, <<"Beneficio", "por", "Accion", "(EPS)">> >>]
      [] name = s_pb ->
           [description |-> "Price-to-Book Ratio (Precio por Accion / Valor en Libros por Accion)",
            required_values |-> 2,
            labels |-> << <<"Precio", "por", "Accion">>, <<"Valor", "en", "Libros", "por", "Accion">> >>]

IsRatioName(name) == \E i \in 1..Len(ratio_names) : ratio_names[i] = name

\* a sign test that exempts no label
HasPasivo_never(label) == FALSE

\* "Pasivo" in label
HasPasivo(label) == \E i \in 1..Len(label) : label[i] = "Pasivo"

msg_unknown_ratio == <<Lit("Ratio no reconocido. Ratios disponibles: "),
                       [f |-> "join", names |-> ratio_names]>>
msg_required(ratio_name, info) ==
    <<Lit("El ratio "), [f |-> "s", s |-> ratio_name], Lit(" requiere "),
      [f |-> "repr", t |-> "int", n |-> info.required_values, d |-> 1],
      Lit(" valores: "), [f |-> "labels", labels |-> info.labels]>>
msg_negative(label) ==
    <<Lit("El valor para "), [f |-> "labels", labels |-> <<label>>],
      Lit(" debe ser mayor o igual a cero.")>>

\* the loop `for i, value in enumerate(values)`: PyNone when it runs to its
\* end, else the failure returned or the exception raised at the first
\* value that stops it
SignCheck(items, labels) ==
    LET Stops(i) == \/ i > Len(labels)
                    \/ /\ ~HasPasivo(labels[i])
                       /\ (~IsNum(items[i]) \/ NumLt(items[i], Zero))
        first == CHOOSE i \in 1..Len(items) : Stops(i) /\ \A j \in 1..(i - 1) : ~Stops(j)
    IN IF \A i \in 1..Len(items) : ~Stops(i) THEN PyNone
       ELSE IF first > Len(labels) THEN Exc("IndexError", "list index out of range")
       ELSE IF ~IsNum(items[first]) THEN TypeErr
       ELSE Failure(msg_negative(labels[first]))

\* per ratio: the 0-based index of the denominator, the zero-denominator
\* message and whether the result is presented as a percentage
\* the second value as denominator of every ratio
Denominator_second(name) == 1

Denominator(name) == IF name = s_quick THEN 2 ELSE 1
msg_zero(name) ==
    CASE name \in {s_current, s_quick} -> <<Lit("El pasivo corriente no puede ser cero.")>>
      [] name = s_debt -> <<Lit("El activo total no puede ser cero.")>>
      [] name = s_roe -> <<Lit("El patrimonio neto no puede ser cero.")>>
      [] name = s_roa -> <<Lit("Los activos totales no pueden ser cero.")>>
      [] name = s_profit_margin -> <<Lit("Las ventas netas no pueden ser cero.")>>
      [] name = s_pe -> <<Lit("El beneficio por accion (EPS) no puede ser cero.")>>
      [] name = s_pb -> <<Lit("El valor en libros por accion no puede ser cero.")>>
IsPercentage(name) == name \in {s_debt, s_roe, s_roa, s_profit_margin}

\* Band with the lower threshold belonging to the lowest band
Band_inclusive(result, lo, hi, low, mid, high) ==
    IF NumLe(result, lo) THEN Lit(low)
    ELSE IF NumLt(result, hi) THEN Lit(mid)
    ELSE Lit(high)

\* the band appended to the explanation: below lo, between lo and hi, above
Band(result, lo, hi, low, mid, high) ==
    IF NumLt(result, lo) THEN Lit(low)
    ELSE IF NumGe(result, lo) /\ NumLt(result, hi) THEN Lit(mid)
    ELSE Lit(high)

explanation(name, result) ==
    LET result_percent == NumMul(result, Hundred)
    IN CASE name = s_current ->
              <<Lit("Un ratio de liquidez corriente de "), F2(result), Lit(" ... tiene $"), F2(result),
                Lit(" de activos corrientes por cada $1 de pasivos corrientes. "),
                Band(result, PyInt(1), PyFloat(3, 2),
                     "Esto puede indicar problemas para cubrir las obligaciones a corto plazo.",
                     "Esto indica una capacidad adecuada para cubrir las obligaciones a corto plazo.",
                     "Esto indica una buena liquidez, aunque un ratio muy alto podria sugerir un uso ineficiente de los activos.")>>
         [] name = s_quick ->
              <<Lit("Un ratio de prueba acida de "), F2(result), Lit(" ... tiene $"), F2(result),
                Lit(" de activos liquidos por cada $1 de pasivos corrientes. "),
                IF NumLt(result, PyInt(1))
                THEN Lit("Esto podria indicar dificultades para cubrir las obligaciones a corto plazo sin vender inventarios.")
                ELSE Lit("Esto indica una buena capacidad para cubrir las obligaciones a corto plazo sin depender de los inventarios.")>>
         [] name = s_debt ->
              <<Lit("Un ratio de endeudamiento del "), F2(result_percent), Lit("% significa que el "),
                F2(result_percent), Lit("% de los activos de la empresa estan financiados con deuda. "),
                Band(result, PyFloat(2, 5), PyFloat(3, 5),
                     "Este nivel de endeudamiento es generalmente considerado bajo.",
                     "Este nivel de endeudamiento es generalmente considerado moderado.",
                     "Este nivel de endeudamiento es generalmente considerado alto.")>>
         [] name = s_roe ->
              <<Lit("Un ROE del "), F2(result_percent), Lit("% ... beneficio de $"), F2(result),
                Lit(" por cada $1 invertido por los accionistas. "),
                Band(result, PyFloat(1, 10), PyFloat(1, 5),
                     "Este retorno es generalmente considerado bajo.",
                     "Este retorno es generalmente considerado adecuado.",
                     "Este retorno es generalmente considerado bueno.")>>
         [] name = s_roa ->
              <<Lit("Un ROA del "), F2(result_percent), Lit("% ... beneficio de $"), F2(result),
                Lit(" por cada $1 en activos. "),
                Band(result, PyFloat(1, 20), PyFloat(1, 10),
                     "Este retorno sobre activos es generalmente considerado bajo.",
                     "Este retorno sobre activos es generalmente considerado adecuado.",
                     "Este retorno sobre activos es generalmente considerado bueno.")>>
         [] name = s_profit_margin ->
              <<Lit("Un margen de beneficio neto del "), F2(result_percent), Lit("% ... genera $"),
                F2(result), Lit(" de beneficio por cada $1 de ventas. "),
                Lit("La interpretacion de este margen depende del sector de la empresa.")>>
         [] name = s_pe ->
              <<Lit("Un ratio P/E de "), F2(result), Lit(" ... pagar $"), F2(result),
                Lit(" por cada $1 de beneficio por accion. "),
                Band(result, PyInt(10), PyInt(20),
                     "Este P/E es generalmente considerado bajo, lo que podria indicar que la accion esta infravalorada.",
                     "Este P/E es generalmente considerado moderado.",
                     "Este P/E es generalmente considerado alto, lo que podria indicar que los inversores esperan un fuerte crecimiento futuro.")>>
         [] name = s_pb ->
              <<Lit("Un ratio P/B de "), F2(result), Lit(" ... pagar $"), F2(result),
                Lit(" por cada $1 de valor en libros. "),
                Band(result, PyInt(1), PyInt(3),
                     "Este P/B es generalmente considerado bajo, lo que podria indicar que la accion esta infravalorada.",
                     "Este P/B es generalmente considerado moderado.",
                     "Este P/B es generalmente considerado alto, lo que podria indicar que los inversores esperan un fuerte rendimiento sobre el patrimonio.")>>

calculate_financial_ratio(ratio_name_arg, values) ==
    IF ~IsStr(ratio_name_arg) THEN Exc("AttributeError", "object has no attribute 'lower'")
    ELSE LET ratio_name == Lower(ratio_name_arg.s)
             ratio_info == ratios(ratio_name)
             items == Items(values)
             checked == SignCheck(items, ratio_info.labels)
             den == items[Denominator(ratio_name) + 1]
             num == items[1]
             result == IF ratio_name = s_quick
                       THEN NumDiv(NumSub(items[1], items[2]), den)
                       ELSE NumDiv(num, den)
         IN IF ~IsRatioName(ratio_name) THEN Failure(msg_unknown_ratio)
            ELSE IF ~IsIterable(values) THEN TypeErr
            ELSE IF Len(items) < ratio_info.required_values
            THEN Failure(msg_required(ratio_name, ratio_info))
            ELSE IF checked # PyNone THEN checked
            ELSE IF IsNum(den) /\ NumIsZero(den) THEN Failure(msg_zero(ratio_name))
            ELSE IF ~IsNum(den) \/ ~IsNum(num) THEN TypeErr
            ELSE Success([ratio_name |-> ratio_name,
                          description |-> ratio_info.description,
                          values |-> [i \in 1..Min(Len(items), Len(ratio_info.labels)) |->
                                         <<ratio_info.labels[i], items[i]>>],
                          ratio_value |-> result,
                          ratio_percentage |-> IF IsPercentage(ratio_name)
                                               THEN NumMul(result, Hundred) ELSE PyNone,
                          explanation |-> explanation(ratio_name, result)])

\* ------------------------------------------------------------------------
\* calculate_npv
\* ------------------------------------------------------------------------
msg_cash_flows == <<Lit("Se requiere al menos un flujo de caja.")>>

\* npv = term instead of npv += term: the last term alone
SumPV_last(pvs, k) == IF k = 0 THEN Zero ELSE pvs[k]
RECURSIVE SumPV(_, _)
\* npv after the first k terms of the accumulation loop
SumPV(pvs, k) == IF k = 0 THEN Zero ELSE NumAdd(SumPV(pvs, k - 1), pvs[k])

calculate_npv(rate, cash_flows) ==
    IF Falsy(cash_flows) THEN Failure(msg_cash_flows)
    ELSE IF ~IsNum(rate) THEN TypeErr
    ELSE IF ~IsIterable(cash_flows) THEN TypeErr
    ELSE LET items == Items(cash_flows)
             rate_decimal == NumDiv(rate, Hundred)
             base == NumAdd(PyInt(1), rate_decimal)
             \* term i (0-based) raises: a cash flow that is not a number, or
             \* a division by (1 + rate_decimal) ** i == 0
             Stops(i) == ~IsNum(items[i + 1]) \/ (NumIsZero(base) /\ i >= 1)
             n == Len(items)
             first == CHOOSE i \in 0..(n - 1) : Stops(i) /\ \A j \in 0..(i - 1) : ~Stops(j)
             pv == [k \in 1..n |-> NumDiv(items[k], NumPow(base, PyInt(k - 1)))]
             npv == SumPV(pv, n)
             positive == NumGt(npv, Zero)
         IN IF \E i \in 0..(n - 1) : Stops(i)
            THEN (IF ~IsNum(items[first + 1]) THEN TypeErr
                  ELSE Exc("ZeroDivisionError", "float division by zero"))
            ELSE Success([npv |-> npv,
                          rate |-> rate,
                          cash_flows |-> cash_flows,
                          detailed_results |-> [k \in 1..n |->
                               [periodo |-> k - 1,
                                flujo_caja |-> items[k],
                                valor_presente |-> pv[k]]],
                          interpretation |->
                              <<Lit("Un VAN de "), F2(npv),
                                Lit(" significa que el proyecto generara "),
                                Lit(IF positive THEN "beneficios" ELSE "perdidas"),
                                Lit(" por un valor presente de $"), F2(NumAbs(npv)), Lit(". "),
                                Lit(IF positive THEN "El proyecto es financieramente viable."
                                    ELSE "El proyecto no es financieramente viable.")>>])

\* ------------------------------------------------------------------------
\* calculate_irr.  numpy is not part of the repository: np.irr either
\* raises (the function was removed from numpy) or returns a float, a rate
\* or nan; the outcome is an input of the model.
\* ------------------------------------------------------------------------
msg_irr_signs == <<Lit("Para calcular la TIR, se necesitan flujos de caja tanto positivos como negativos.")>>

IrrRates == {PyFloat(1, 10), PyFloat(1, 1)}
IrrOutcomes == {Exc("AttributeError", "module 'numpy' has no attribute 'irr'"), NaN} \cup IrrRates

\* AnyNum with tests that zero passes: cf >= 0 and cf <= 0
AnyNum_inclusive(items, positive) ==
    LET Test(cf) == IF positive THEN NumGe(cf, Zero) ELSE NumLe(cf, Zero)
        Stops(i) == ~IsNum(items[i]) \/ Test(items[i])
        first == CHOOSE i \in 1..Len(items) : Stops(i) /\ \A j \in 1..(i - 1) : ~Stops(j)
    IN IF \A i \in 1..Len(items) : ~Stops(i) THEN "false"
       ELSE IF ~IsNum(items[first]) THEN "raise"
       ELSE "true"

\* any(cf > 0 for cf in items) when positive, any(cf < 0 for cf in items)
\* otherwise: "true", "false", or "raise" when a value that is not a number
\* is compared before a value passes the test
AnyNum(items, positive) ==
    LET Test(cf) == IF positive THEN NumGt(cf, Zero) ELSE NumLt(cf, Zero)
        Stops(i) == ~IsNum(items[i]) \/ Test(items[i])
        first == CHOOSE i \in 1..Len(items) : Stops(i) /\ \A j \in 1..(i - 1) : ~Stops(j)
    IN IF \A i \in 1..Len(items) : ~Stops(i) THEN "false"
       ELSE IF ~IsNum(items[first]) THEN "raise"
       ELSE "true"

\* np.irr(cash_flows) with the outcome solver of the library
np_irr(items, solver) ==
    IF \E i \in 1..Len(items) : ~IsNum(items[i]) THEN TypeErr ELSE solver

calculate_irr(cash_flows, solver) ==
    IF Falsy(cash_flows) THEN Failure(msg_cash_flows)
    ELSE IF ~IsIterable(cash_flows) THEN TypeErr
    ELSE LET items == Items(cash_flows)
             has_positive == AnyNum(items, TRUE)
             has_negative == AnyNum(items, FALSE)
             irr == np_irr(items, solver)
             irr_percent == NumMul(irr, Hundred)
         IN IF has_positive = "raise" \/ has_negative = "raise" THEN TypeErr
            ELSE IF ~(has_positive = "true" /\ has_negative = "true") THEN Failure(msg_irr_signs)
            ELSE IF IsExc(irr)
            THEN Failure(<<Lit("Error al calcular la TIR: ")>> \o ExcText(irr))
            ELSE Success([irr |-> irr,
                          irr_percent |-> irr_percent,
                          cash_flows |-> cash_flows,
                          interpretation |->
                              <<Lit("Una TIR del "), F2(irr_percent),
                                Lit("% significa que el proyecto genera un rendimiento del "),
                                F2(irr_percent),
                                Lit("%. Para determinar si el proyecto es viable, compare esta TIR con la tasa minima de rendimiento requerida.")>>])

\* ------------------------------------------------------------------------
\* execute_financial_calculation: type resolution, required fields,
\* calculator selection
\* ------------------------------------------------------------------------
\* params["type"].lower(): the lowered type, or the exception raised
ResolveType(params) ==
    IF params.t # "dict" THEN Exc("TypeError", "indices must be integers")
    ELSE IF ~IsStr(params.v[s_type]) THEN Exc("AttributeError", "object has no attribute 'lower'")
    ELSE PyStr(Lower(params.v[s_type].s))

roi_types == {s_roi, s_retorno}
compound_types == {s_compuesto, s_interes_compuesto}
loan_types == {s_prestamo, s_loan}
ratio_types == {s_ratio, s_ratios}
npv_types == {s_npv, s_van}
irr_types == {s_irr, s_tir}
RecognizedTypes == roi_types \cup compound_types \cup loan_types \cup ratio_types
                     \cup npv_types \cup irr_types

\* the keys the branch of a recognized type tests with `not in params`
RequiredKeys(calculation_type) ==
    CASE calculation_type \in roi_types -> {s_initial, s_final}
      [] calculation_type \in compound_types -> {s_principal, s_rate, s_periods}
      [] calculation_type \in loan_types -> {s_principal, s_rate, s_periods}
      [] calculation_type \in ratio_types -> {s_ratio_name, s_values}
      [] calculation_type \in npv_types -> {s_rate, s_cash_flows}
      [] calculation_type \in irr_types -> {s_cash_flows}

msg_required_fields(calculation_type) ==
    CASE calculation_type \in roi_types ->
           <<Lit("Error: Se requieren los valores 'initial' (inversion inicial) y 'final' (valor final).")>>
      [] calculation_type \in compound_types \cup loan_types ->
           <<Lit("Error: Se requieren los valores 'principal', 'rate' (tasa) y 'periods' (periodos).")>>
      [] calculation_type \in ratio_types ->
           <<Lit("Error: Se requieren los valores 'ratio_name' (nombre del ratio) y 'values' (valores para el calculo).")>>
      [] calculation_type \in npv_types ->
           <<Lit("Error: Se requieren los valores 'rate' (tasa de descuento) y 'cash_flows' (flujos de caja).")>>
      [] calculation_type \in irr_types ->
           <<Lit("Error: Se requiere el valor 'cash_flows' (flujos de caja).")>>
msg_unrecognized(calculation_type) ==
    <<Lit("Error: Tipo de calculo '"), [f |-> "s", s |-> calculation_type], Lit("' no reconocido.")>>

\* PresenceCheck with `and` for `or`: the error only when every key is absent
PresenceCheck_all_absent(calculation_type, params) ==
    IF calculation_type \notin RecognizedTypes THEN msg_unrecognized(calculation_type)
    ELSE IF RequiredKeys(calculation_type) \cap DOMAIN params.v = {}
    THEN msg_required_fields(calculation_type)
    ELSE <<>>

\* the error line the if-chain returns before any calculator runs, or <<>>
\* when the branch of the type goes on to its calculator
PresenceCheck(calculation_type, params) ==
    IF calculation_type \notin RecognizedTypes THEN msg_unrecognized(calculation_type)
    ELSE IF ~(RequiredKeys(calculation_type) \subseteq DOMAIN params.v)
    THEN msg_required_fields(calculation_type)
    ELSE <<>>

\* the calculator call of the branch of the type
CallCalculator(calculation_type, params, solver) ==
    LET p == params.v
    IN CASE calculation_type \in roi_types -> calculate_roi(p[s_initial], p[s_final])
         [] calculation_type \in compound_types ->
              LET frequency == IF s_frequency \in DOMAIN p THEN p[s_frequency] ELSE PyStr(s_annual)
              IN calculate_compound_interest(p[s_principal], p[s_rate], p[s_periods], frequency)
         [] calculation_type \in loan_types ->
              calculate_loan_payment(p[s_principal], p[s_rate], p[s_periods])
         [] calculation_type \in ratio_types ->
              calculate_financial_ratio(p[s_ratio_name], p[s_values])
         [] calculation_type \in npv_types -> calculate_npv(p[s_rate], p[s_cash_flows])
         [] calculation_type \in irr_types -> calculate_irr(p[s_cash_flows], solver)

\* ------------------------------------------------------------------------
\* execute_financial_calculation: the response of a successful result
\* ------------------------------------------------------------------------
\* ', '.join(f'${cf:.2f}' for cf in cash_flows)
FlowPieces(cash_flows) == [i \in 1..Len(Items(cash_flows)) |-> F2(Items(cash_flows)[i])]

RECURSIVE LoanLines(_, _)
\* the schedule lines, with the ellipsis line after period 5 of a loan of
\* more than 10 periods
LoanLines(sample, periods) ==
    IF sample = <<>> THEN <<>>
    ELSE LET period == sample[1]
             line == <<Lit("Periodo "), [f |-> "repr", t |-> "int", n |-> period.periodo, d |-> 1],
                       Lit(": Pago $"), F2(period.pago),
                       Lit(" (Principal: $"), F2(period.principal),
                       Lit(", Interes: $"), F2(period.interes),
                       Lit("), Balance restante: $"), F2(period.balance_restante)>>
         IN (IF period.periodo = 5 /\ NumGt(periods, PyInt(10))
             THEN <<line, <<Lit("...")>> >>
             ELSE <<line>>) \o LoanLines(Tail(sample), periods)

FormatResponse(calculation_type, data) ==
    CASE calculation_type \in roi_types ->
           << <<Lit("Analisis de Retorno sobre Inversion (ROI):")>>,
              <<Lit("Inversion inicial: $"), F2(data.initial_investment)>>,
              <<Lit("Valor final: $"), F2(data.final_value)>>,
              <<Lit("Ganancia/Perdida: $"), F2(data.profit_loss)>>,
              <<Lit("ROI: "), F2(data.roi_percent), Lit("%")>>,
              <<>>,
              <<Lit("Interpretacion: Por cada $1 invertido, "),
                Lit(IF NumGt(data.roi, Zero) THEN "se ganaron" ELSE "se perdieron"),
                Lit(" $"), F2(NumAbs(data.roi)), Lit(".")>> >>
      [] calculation_type \in compound_types ->
           << <<Lit("Calculo de Interes Compuesto:")>>,
              <<Lit("Capital inicial: $"), F2(data.principal)>>,
              <<Lit("Tasa de interes: "), F2(data.rate), Lit("% ("), FStr(data.frequency), Lit(")")>>,
              <<Lit("Periodo: "), FStr(data.periods), Lit(" anos")>>,
              <<Lit("Monto final: $"), F2(data.final_amount)>>,
              <<Lit("Interes ganado: $"), F2(data.interest_earned)>>,
              <<>>,
              <<Lit("Nota: El interes se capitaliza "), FStr(data.frequency), Lit(" ("),
                FStr(data.compound_frequency), Lit(" veces por ano).")>> >>
      [] calculation_type \in loan_types ->
           << <<Lit("Calculo de Prestamo:")>>,
              <<Lit("Monto del prestamo: $"), F2(data.principal)>>,
              <<Lit("Tasa de interes anual: "), F2(data.rate), Lit("%")>>,
              <<Lit("Plazo: "), FStr(data.periods), Lit(" meses")>>,
              <<Lit("Pago mensual: $"), F2(data.monthly_payment)>>,
              <<Lit("Total a pagar: $"), F2(data.total_payments)>>,
              <<Lit("Total de intereses: $"), F2(data.total_interest)>>,
              <<>>,
              <<Lit("Calendario de amortizacion (muestra):")>> >>
           \o LoanLines(data.amortization_sample, data.periods)
      [] calculation_type \in ratio_types ->
           << <<Lit("Calculo de Ratio Financiero: "), [f |-> "s", s |-> data.ratio_name]>>,
              <<Lit("Descripcion: "), Lit(data.description)>>,
              <<>>,
              <<Lit("Valores utilizados:")>> >>
           \o [i \in 1..Len(data.values) |->
                 <<Lit("- "), [f |-> "labels", labels |-> <<data.values[i][1]>>],
                   Lit(": $"), F2(data.values[i][2])>>]
           \o << <<>>,
                 IF data.ratio_percentage # PyNone
                 THEN <<Lit("Resultado: "), F2(data.ratio_percentage), Lit("%")>>
                 ELSE <<Lit("Resultado: "), F2(data.ratio_value)>>,
                 <<>>,
                 <<Lit("Interpretacion: ")>> \o data.explanation >>
      [] calculation_type \in npv_types ->
           << <<Lit("Calculo del Valor Actual Neto (VAN):")>>,
              <<Lit("Tasa de descuento: "), F2(data.rate), Lit("%")>>,
              <<Lit("Flujos de caja: ")>> \o FlowPieces(data.cash_flows),
              <<Lit("VAN: $"), F2(data.npv)>>,
              <<>>,
              <<Lit("Detalle por periodo:")>> >>
           \o [i \in 1..Len(data.detailed_results) |->
                 <<Lit("Periodo "),
                   [f |-> "repr", t |-> "int", n |-> data.detailed_results[i].periodo, d |-> 1],
                   Lit(": Flujo $"), F2(data.detailed_results[i].flujo_caja),
                   Lit(", Valor presente: $"), F2(data.detailed_results[i].valor_presente)>>]
           \o << <<>>, <<Lit("Interpretacion: ")>> \o data.interpretation >>
      [] calculation_type \in irr_types ->
           << <<Lit("Calculo de la Tasa Interna de Retorno (TIR):")>>,
              <<Lit("Flujos de caja: ")>> \o FlowPieces(data.cash_flows),
              <<Lit("TIR: "), F2(data.irr_percent), Lit("%")>>,
              <<>>,
              <<Lit("Interpretacion: ")>> \o data.interpretation >>

\* the whole of execute_financial_calculation on one query, given the
\* outcome solver of np.irr: the text returned or the exception raised
Text(lines) == [kind |-> "text", lines |-> lines]
Raise(e) == [kind |-> "exc", exc |-> e]
NoReturn == [kind |-> "none"]

execute_financial_calculation(query, solver) ==
    LET parsed == parse_calculation_request(query)
        calculation_type == ResolveType(parsed.params)
        early == PresenceCheck(calculation_type.s, parsed.params)
        result == CallCalculator(calculation_type.s, parsed.params, solver)
    IN IF ~parsed.success THEN Text(<< <<Lit("Error: ")>> \o parsed.error >>)
       ELSE IF IsExc(calculation_type) THEN Raise(calculation_type)
       ELSE IF early # <<>> THEN Text(<<early>>)
       ELSE IF Raised(result) THEN Raise(result)
       ELSE IF ~result.success THEN Text(<< <<Lit("Error en el calculo: ")>> \o result.error >>)
       ELSE Text(FormatResponse(calculation_type.s, result.result))

\* ------------------------------------------------------------------------
\* The queries of the model
\* ------------------------------------------------------------------------
Seqs(S, n) == UNION {[1..k -> S] : k \in 0..n}
TextQuery(toks) == [kind |-> "text", text |-> JoinSp(toks)]
JsonQuery(doc) == [kind |-> "json", doc |-> doc]

s_foo == <<"f","o","o">>
s_bogus == <<"b","o","g","u","s">>
tok_2 == <<"2">>
tok_0 == <<"0">>
tok_m1 == <<"-","1">>
tok_x == <<"x">>
tok_1000 == <<"1","0","0","0">>
tok_1500 == <<"1","5","0","0">>
tok_1200 == <<"1","2","0","0">>

Aliases == RecognizedTypes
TypeTokens == Aliases \cup {Upper(s_roi), Capitalize(s_retorno), Upper(s_compuesto), Capitalize(s_loan),
                              Upper(s_van), Capitalize(s_tir)}
                \cup {s_compare, s_comparar, s_foo}
NumTokens == {tok_2, tok_0, tok_x}
ValueTokens == {tok_2, tok_0, tok_m1}
RatioNameTokens == {s_current, Upper(s_current), s_quick, s_debt, s_roe, s_roa, s_profit_margin,
                    s_pe, Capitalize(s_pb), s_bogus}
KVTokens == {<<"k","=","1">>, <<"k","=","v","=","w">>, s_type \o <<"=">> \o s_roi,
             s_initial \o <<"=","2">>}

PositionalQueries ==
    {TextQuery(<<t>> \o args) : t \in TypeTokens, args \in Seqs(NumTokens, MaxArgs)}
RatioQueries ==
    {TextQuery(<<t, r>> \o vs) : t \in {s_ratio, Upper(s_ratios)},
                                 r \in RatioNameTokens, vs \in Seqs(ValueTokens, MaxValues)}
KeyValueQueries ==
    {TextQuery(<<t>> \o args) : t \in {s_foo, s_roi, s_compare}, args \in Seqs(KVTokens, MaxArgs)}
OtherTextQueries ==
    {TextQuery(<<>>), TextQuery(<<tok_2>>), TextQuery(<<tok_m1>>), TextQuery(<<<<"2",".","5">>>>),
     [kind |-> "text", text |-> <<" ", " ">> \o s_roi \o <<" ", " ", "2", " ", "0", " ">>],
     TextQuery(<<s_roi, tok_1000, tok_1500>>),
     TextQuery(<<s_compuesto, tok_2, tok_1200, <<"1">>, Capitalize(s_monthly)>>),
     TextQuery(<<s_compuesto, tok_2, tok_2, tok_2, s_bogus>>),
     TextQuery(<<s_compuesto, tok_2, tok_2, <<"1">>>>),
     TextQuery(<<s_compuesto, tok_2, tok_2, <<"1">>, Capitalize(s_annual)>>),
     TextQuery(<<s_compuesto, tok_2, <<"2","0","0">>, <<"1">>, Upper(s_semiannual)>>),
     TextQuery(<<s_compuesto, tok_2, <<"4","0","0">>, <<"1">>, Capitalize(s_quarterly)>>),
     TextQuery(<<s_compuesto, tok_2, tok_min_float, <<"1">>, s_daily>>),
     TextQuery(<<s_roi, tok_2, tok_2, <<"k","=","1">>, tok_x>>),
     TextQuery(<<s_roi, tok_m1, tok_2>>), TextQuery(<<s_prestamo, tok_2, tok_m1, tok_m1>>),
     TextQuery(<<s_prestamo, tok_2, tok_min_float, tok_2>>),
     TextQuery(<<s_compuesto, tok_2, tok_min_float, tok_2>>),
     TextQuery(<<s_prestamo, tok_2, tok_1500, <<"1",".","5">>>>),
     TextQuery(<<s_prestamo, tok_2, tok_1500, <<"0",".","5">>>>),
     TextQuery(<<s_prestamo, tok_2, tok_1200, <<"1","2">>>>),
     TextQuery(<<s_prestamo, tok_2, tok_1200, <<"1","1">>>>),
     TextQuery(<<s_prestamo, tok_1000, tok_1200, <<"6">>>>),
     TextQuery(<<s_prestamo, tok_2, tok_1200, <<"1","0">>>>),
     TextQuery(<<s_prestamo, <<"1">>, <<"3","6","0","0">>, <<"1","0",".","5">>>>),
     TextQuery(<<s_ratio, s_roe, tok_2, tok_2>>),
     TextQuery(<<s_ratio, s_current, <<"2","0","0">>, <<"1","0","0">>>>),
     TextQuery(<<s_ratio, s_current, <<"5","0">>, <<"1","0","0">>>>),
     TextQuery(<<s_ratio, s_current, <<"3">>, tok_2>>),
     TextQuery(<<s_ratio, s_current, <<"1","4","9">>, <<"1","0","0">>>>),
     TextQuery(<<s_foo, s_type \o <<"=","5">>>>),
     TextQuery(<<s_foo, s_type \o <<"=">> \o s_roi, s_initial \o <<"=","2">>, s_final \o <<"=","2">>>>)}

\* a JSON object from a sequence of <<key, set of documents>>: every choice
\* of one document per key, each key present or absent
RECURSIVE Members(_)
Members(fields) ==
    IF fields = <<>> THEN {<<>>}
    ELSE LET rest == Members(Tail(fields))
         IN rest \cup {<< <<fields[1][1], d>> >> \o m : d \in fields[1][2], m \in rest}
Objects(types, fields) ==
    {JObject(<< <<s_type, JString(t)>> >> \o m) : t \in types, m \in Members(fields)}

JNumbers == {JInt(2), JInt(0), JInt(-1), JReal(2), JString(tok_x), JNull}
JFlows == {JArray(fs) : fs \in Seqs({JInt(2), JInt(-1), JString(tok_x)}, MaxFlows)}
            \cup {JInt(2), JInt(0), JString(tok_x)}
StructuredQueries ==
    {JsonQuery(d) : d \in
        Objects({s_roi, Upper(s_roi), s_retorno}, << <<s_initial, JNumbers>>, <<s_final, JNumbers>> >>)
        \cup Objects({s_compuesto, s_interes_compuesto},
                     << <<s_principal, JNumbers>>, <<s_rate, JNumbers>>, <<s_periods, JNumbers>> >>)
        \cup Objects({s_prestamo, Capitalize(s_loan)},
                     << <<s_principal, JNumbers>>, <<s_rate, JNumbers>>, <<s_periods, JNumbers>> >>)
        \cup Objects({s_ratio},
                     << <<s_ratio_name, {JString(s_current), JString(Upper(s_debt)), JString(s_bogus), JInt(2)}>>,
                        <<s_values, JFlows>> >>)
        \cup Objects({s_npv, s_van},
                     << <<s_rate, {JInt(2), JInt(0), JInt(-100), JString(tok_x)}>>,
                        <<s_cash_flows, JFlows>> >>)
        \cup Objects({s_irr, Upper(s_tir)}, << <<s_cash_flows, JFlows>> >>)
        \cup Objects({s_foo, s_compare}, << <<s_initial, {JInt(2)}>> >>)}
OtherJsonQueries ==
    {JsonQuery(d) : d \in
        {JObject(<<>>), JObject(<< <<s_initial, JInt(2)>>, <<s_final, JInt(2)>> >>),
         JObject(<< <<s_type, JInt(5)>> >>), JObject(<< <<s_type, JNull>> >>),
         JArray(<<>>), JArray(<<JString(s_type)>>), JArray(<<JString(s_roi), JInt(2)>>),
         JString(s_type), JString(<<"x">> \o s_type \o <<"x">>), JString(s_roi), JString(<<>>),
         JNull,
         JObject(<< <<s_type, JString(s_roi)>>, <<s_initial, JInt(1000)>>, <<s_final, JInt(1500)>> >>),
         JObject(<< <<s_type, JString(s_roi)>>, <<s_initial, JString(tok_2)>>, <<s_final, JInt(2)>> >>),
         JObject(<< <<s_type, JString(s_compuesto)>>, <<s_principal, JInt(2)>>, <<s_rate, JInt(1200)>>,
                    <<s_periods, JInt(1)>>, <<s_frequency, JString(Capitalize(s_monthly))>> >>),
         JObject(<< <<s_type, JString(s_compuesto)>>, <<s_principal, JInt(2)>>, <<s_rate, JInt(2)>>,
                    <<s_periods, JInt(2)>>, <<s_frequency, JInt(12)>> >>)}}

Queries == PositionalQueries \cup RatioQueries \cup KeyValueQueries \cup OtherTextQueries
             \cup StructuredQueries \cup OtherJsonQueries

\* ------------------------------------------------------------------------
\* Chat session of the web UI (src/src/ui/web.py)
\* ------------------------------------------------------------------------
\* messages a session history may hold in the model
MaxMessages == 4

\* st.session_state once initialize_session_state has run: an empty
\* history, and no pending_query attribute yet
FreshSession ==
    [messages |-> <<>>, pending_query |-> [t |-> "absent"]]

\* no run of the script is in progress: the page waits for the user
NoRun ==
    [pc |-> "waiting", event |-> PyNone, query |-> PyNone, response |-> PyNone]

\* ------------------------------------------------------------------------
\* The state machine: one invocation of execute_financial_calculation at a
\* time, stepping through the function body
\* ------------------------------------------------------------------------
VARIABLES pc, query, parsed, calculation_type, result, returned,
          session_state, script

vars == <<pc, query, parsed, calculation_type, result, returned,
         session_state, script>>

Init ==
    /\ pc = "idle"
    /\ query = PyNone
    /\ parsed = PyNone
    /\ calculation_type = PyNone
    /\ result = PyNone
    /\ returned = NoReturn
    /\ session_state = FreshSession
    /\ script = NoRun

\* the agent calls the tool with a query
Invoke(q) ==
    /\ pc = "idle"
    /\ pc' = "called"
    /\ query' = q
    /\ UNCHANGED <<parsed, calculation_type, result, returned>>
    /\ UNCHANGED <<session_state, script>>

\* parsed = parse_calculation_request(query); return the error on failure
Parse ==
    /\ pc = "called"
    /\ parsed' = parse_calculation_request(query)
    /\ IF parsed'.success
       THEN pc' = "parsed" /\ UNCHANGED returned
       ELSE pc' = "returned" /\ returned' = Text(<< <<Lit("Error: ")>> \o parsed'.error >>)
    /\ UNCHANGED <<query, calculation_type, result>>
    /\ UNCHANGED <<session_state, script>>

\* calculation_type = params["type"].lower()
Resolve ==
    /\ pc = "parsed"
    /\ LET t == ResolveType(parsed.params)
       IN IF IsExc(t)
          THEN pc' = "raised" /\ returned' = Raise(t) /\ UNCHANGED calculation_type
          ELSE pc' = "resolved" /\ calculation_type' = t /\ UNCHANGED returned
    /\ UNCHANGED <<query, parsed, result>>
    /\ UNCHANGED <<session_state, script>>

\* the type test and the `not in params` tests of the branch of the type
CheckRequired ==
    /\ pc = "resolved"
    /\ LET early == PresenceCheck(calculation_type.s, parsed.params)
       IN IF early # <<>>
          THEN pc' = "returned" /\ returned' = Text(<<early>>)
          ELSE pc' = "checked" /\ UNCHANGED returned
    /\ UNCHANGED <<query, parsed, calculation_type, result>>
    /\ UNCHANGED <<session_state, script>>

\* result = calculate_...(...)
Calculate(solver) ==
    /\ pc = "checked"
    /\ LET r == CallCalculator(calculation_type.s, parsed.params, solver)
       IN IF Raised(r)
          THEN pc' = "raised" /\ returned' = Raise(r) /\ UNCHANGED result
          ELSE pc' = "calculated" /\ result' = r /\ UNCHANGED returned
    /\ UNCHANGED <<query, parsed, calculation_type>>
    /\ UNCHANGED <<session_state, script>>

\* if not result["success"]: return the calculator's error
CheckResult ==
    /\ pc = "calculated"
    /\ IF ~result.success
       THEN /\ pc' = "returned"
            /\ returned' = Text(<< <<Lit("Error en el calculo: ")>> \o result.error >>)
       ELSE pc' = "formatting" /\ UNCHANGED returned
    /\ UNCHANGED <<query, parsed, calculation_type, result>>
    /\ UNCHANGED <<session_state, script>>

\* a rendering that empties the structured result as it goes
Format_consuming ==
    /\ pc = "formatting"
    /\ pc' = "returned"
    /\ returned' = Text(FormatResponse(calculation_type.s, result.result))
    /\ result' = [result EXCEPT !.result = EmptyDict]
    /\ UNCHANGED <<query, parsed, calculation_type>>
    /\ UNCHANGED <<session_state, script>>

\* the rendering of the response of the successful result
Format ==
    /\ pc = "formatting"
    /\ pc' = "returned"
    /\ returned' = Text(FormatResponse(calculation_type.s, result.result))
    /\ UNCHANGED <<query, parsed, calculation_type, result>>
    /\ UNCHANGED <<session_state, script>>

\* the call is over: the caller has the text or the exception
Finish ==
    /\ pc \in {"returned", "raised"}
    /\ pc' = "idle"
    /\ query' = PyNone
    /\ parsed' = PyNone
    /\ calculation_type' = PyNone
    /\ result' = PyNone
    /\ returned' = NoReturn
    /\ UNCHANGED <<session_state, script>>

Next ==
    \/ \E q \in Queries : Invoke(q)
    \/ Parse
    \/ Resolve
    \/ CheckRequired
    \/ \E solver \in IrrOutcomes : Calculate(solver)
    \/ CheckResult
    \/ Format
    \/ Finish

Spec == Init /\ [][Next]_vars

\* The body of execute_financial_calculation is straight-line synchronous
\* code: while a call is in progress its control point moves on.  Nothing
\* obliges a caller to invoke again or to collect the answer.
CallPcs == {"called", "parsed", "resolved", "checked", "calculated", "formatting"}
\* the control point of the call in progress changes
PcAdvance ==
    /\ pc \in CallPcs
    /\ pc' \in CallPcs \cup {"returned", "raised"}
    /\ pc' # pc
FairSpec == Spec /\ WF_pc(PcAdvance)
\* (Each step of the call is guarded by its control point alone and has an
\* outcome on both sides of its test, so every control point of CallPcs has
\* a step to take: the fairness condition asks for nothing the program
\* cannot do.)

\* ------------------------------------------------------------------------
\* Concurrent invocations.  The tool is a plain function: several callers
\* may be inside it at once, their steps interleaved in any order.  The
\* module has no module-level variable; parsed, calculation_type and result
\* are locals, and the locals of an invocation live in the frame of that
\* invocation.  Here every variable is a function: pc, query and returned
\* of the invocations (what the caller passed and gets), the locals of the
\* frames.
\* ------------------------------------------------------------------------
MaxCalls == 2
Calls == 1..MaxCalls

\* one frame for all invocations, as globals would be
Frame_shared(c) == 1
\* the frame that holds the locals of invocation c
Frame(c) == c

ConcurrentQueries ==
    {TextQuery(<<s_ratio, s_current, <<"2","0","0">>, <<"1","0","0">>>>),
     TextQuery(<<s_prestamo, tok_2, tok_1200, tok_2>>),
     TextQuery(<<s_npv, <<"-","1","0","0">>, tok_2, tok_2>>),
     TextQuery(<<>>),
     JsonQuery(JObject(<< <<s_type, JString(s_irr)>>,
                          <<s_cash_flows, JArray(<<JInt(-1), JInt(2)>>)>> >>))}

ConcurrentInit ==
    /\ pc = [c \in Calls |-> "idle"]
    /\ query = [c \in Calls |-> PyNone]
    /\ parsed = [f \in Calls |-> PyNone]
    /\ calculation_type = [f \in Calls |-> PyNone]
    /\ result = [f \in Calls |-> PyNone]
    /\ returned = [c \in Calls |-> NoReturn]
    /\ session_state = FreshSession
    /\ script = NoRun

\* invocation c is at `from` and moves to `to`, returning `value` when it ends
Goes(c, from, to, value) ==
    /\ pc[c] = from
    /\ pc' = [pc EXCEPT ![c] = to]
    /\ returned' = [returned EXCEPT ![c] = value]

CallInvoke(c, q) ==
    /\ Goes(c, "idle", "called", NoReturn)
    /\ query' = [query EXCEPT ![c] = q]
    /\ UNCHANGED <<parsed, calculation_type, result>>
    /\ UNCHANGED <<session_state, script>>

\* parsed = parse_calculation_request(query)
CallParse(c) ==
    /\ Goes(c, "called", "parsing", NoReturn)
    /\ parsed' = [parsed EXCEPT ![Frame(c)] = parse_calculation_request(query[c])]
    /\ UNCHANGED <<query, calculation_type, result>>
    /\ UNCHANGED <<session_state, script>>

\* if not parsed["success"]: return the error
CallCheckParsed(c) ==
    /\ pc[c] = "parsing"
    /\ IF ~parsed[Frame(c)].success
       THEN Goes(c, "parsing", "returned",
                 Text(<< <<Lit("Error: ")>> \o parsed[Frame(c)].error >>))
       ELSE Goes(c, "parsing", "parsed", NoReturn)
    /\ UNCHANGED <<query, parsed, calculation_type, result>>
    /\ UNCHANGED <<session_state, script>>

CallResolve(c) ==
    /\ pc[c] = "parsed"
    /\ LET t == ResolveType(parsed[Frame(c)].params)
       IN IF IsExc(t)
          THEN Goes(c, "parsed", "raised", Raise(t)) /\ UNCHANGED calculation_type
          ELSE /\ Goes(c, "parsed", "resolved", NoReturn)
               /\ calculation_type' = [calculation_type EXCEPT ![Frame(c)] = t]
    /\ UNCHANGED <<query, parsed, result>>
    /\ UNCHANGED <<session_state, script>>

CallCheckRequired(c) ==
    /\ pc[c] = "resolved"
    /\ LET early == PresenceCheck(calculation_type[Frame(c)].s, parsed[Frame(c)].params)
       IN IF early # <<>>
          THEN Goes(c, "resolved", "returned", Text(<<early>>))
          ELSE Goes(c, "resolved", "checked", NoReturn)
    /\ UNCHANGED <<query, parsed, calculation_type, result>>
    /\ UNCHANGED <<session_state, script>>

CallCalculate(c, solver) ==
    /\ pc[c] = "checked"
    /\ LET r == CallCalculator(calculation_type[Frame(c)].s, parsed[Frame(c)].params, solver)
       IN IF Raised(r)
          THEN Goes(c, "checked", "raised", Raise(r)) /\ UNCHANGED result
          ELSE /\ Goes(c, "checked", "calculated", NoReturn)
               /\ result' = [result EXCEPT ![Frame(c)] = r]
    /\ UNCHANGED <<query, parsed, calculation_type>>
    /\ UNCHANGED <<session_state, script>>

CallCheckResult(c) ==
    /\ pc[c] = "calculated"
    /\ IF ~result[Frame(c)].success
       THEN Goes(c, "calculated", "returned",
                 Text(<< <<Lit("Error en el calculo: ")>> \o result[Frame(c)].error >>))
       ELSE Goes(c, "calculated", "formatting", NoReturn)
    /\ UNCHANGED <<query, parsed, calculation_type, result>>
    /\ UNCHANGED <<session_state, script>>

CallFormat(c) ==
    /\ pc[c] = "formatting"
    /\ Goes(c, "formatting", "returned",
            Text(FormatResponse(calculation_type[Frame(c)].s, result[Frame(c)].result)))
    /\ UNCHANGED <<query, parsed, calculation_type, result>>
    /\ UNCHANGED <<session_state, script>>

\* the caller has the answer; the frame of the invocation is gone
CallFinish(c) ==
    /\ pc[c] \in {"returned", "raised"}
    /\ pc' = [pc EXCEPT ![c] = "idle"]
    /\ query' = [query EXCEPT ![c] = PyNone]
    /\ returned' = [returned EXCEPT ![c] = NoReturn]
    /\ parsed' = [parsed EXCEPT ![Frame(c)] = PyNone]
    /\ calculation_type' = [calculation_type EXCEPT ![Frame(c)] = PyNone]
    /\ result' = [result EXCEPT ![Frame(c)] = PyNone]
    /\ UNCHANGED <<session_state, script>>

ConcurrentNext ==
    \E c \in Calls :
        \/ \E q \in ConcurrentQueries : CallInvoke(c, q)
        \/ CallParse(c)
        \/ CallCheckParsed(c)
        \/ CallResolve(c)
        \/ CallCheckRequired(c)
        \/ \E solver \in IrrOutcomes : CallCalculate(c, solver)
        \/ CallCheckResult(c)
        \/ CallFormat(c)
        \/ CallFinish(c)

ConcurrentSpec == ConcurrentInit /\ [][ConcurrentNext]_vars

\* ------------------------------------------------------------------------
\* Runs of run_web over one chat session
\*
\* Streamlit runs the script from the top for each widget event and for
\* each st.rerun(); session_state outlives the runs, the locals of a run
\* (query, prompt, response) do not.  script.event is the widget that
\* reports a value in the current run: one example button, or the chat
\* input, or none.
\* ------------------------------------------------------------------------
\* the buttons of the sidebar, by their position in example_queries
example_queries == {[t |-> "example", i |-> k] : k \in 1..5}

\* texts the user may submit through st.chat_input (never empty)
Prompts == {[t |-> "prompt", i |-> 1]}

WidgetEvents == example_queries \cup Prompts

\* Python truth of pending_query / prompt: a non-empty str
Truthy(v) == v.t \in {"example", "prompt"}

\* hasattr(st.session_state, 'pending_query')
HasPending(state) == state.pending_query.t # "absent"

\* st.session_state.messages.append({"role": role, "content": content})
add_message(messages, role, content) ==
    Append(messages, [role |-> role, content |-> content])

\* outcomes of agent.invoke: it returns an output or raises an Exception
AgentOutcomes == {"output", "raises"}

\* query_agent: the dict it returns always has a "response"
query_agent(q, outcome) ==
    IF outcome = "output"
    THEN [response |-> [t |-> "output", of |-> q], success |-> TRUE]
    ELSE [response |-> [t |-> "apology"], success |-> FALSE]

\* the page has been opened and no tool call is in progress
WebInit == Init

Web(state, run) ==
    /\ session_state' = state
    /\ script' = run
    /\ UNCHANGED <<pc, query, parsed, calculation_type, result, returned>>

\* a run started for widget event e (PyNone: a rerun without an event)
StartRun(e) ==
    [pc |-> "sidebar", event |-> e, query |-> PyNone, response |-> PyNone]

\* room left in the modelled history for a question and its answer
Room == Len(session_state.messages) + 2 <= MaxMessages

\* the user clicks an example button or submits the chat input while the
\* page waits: Streamlit runs the script with that widget's value
UserEvent(e) ==
    /\ script.pc = "waiting"
    /\ Room
    /\ Web(session_state, StartRun(e))

\* for query in example_queries: if st.button(query): add_message("user",
\* query); st.session_state.pending_query = query
Sidebar ==
    /\ script.pc = "sidebar"
    /\ IF script.event.t = "example"
       THEN Web([messages |-> add_message(session_state.messages, "user",
                                          script.event),
                 pending_query |-> script.event],
                [script EXCEPT !.pc = "pending"])
       ELSE Web(session_state, [script EXCEPT !.pc = "pending"])

\* if hasattr(...) and st.session_state.pending_query: query =
\* pending_query; pending_query = None
PendingBranch ==
    /\ script.pc = "pending"
    /\ IF HasPending(session_state) /\ Truthy(session_state.pending_query)
       THEN Web([session_state EXCEPT !.pending_query = PyNone],
                [script EXCEPT !.pc = "agent_pending",
                               !.query = session_state.pending_query])
       ELSE Web(session_state, [script EXCEPT !.pc = "chat_input"])

\* with st.spinner(...): response = query_agent(agent1, query)
AgentPending(outcome) ==
    /\ script.pc = "agent_pending"
    /\ Web(session_state,
           [script EXCEPT !.pc = "reply_pending",
                          !.response = query_agent(script.query, outcome)])

\* add_message("assistant", response["response"])
ReplyPending ==
    /\ script.pc = "reply_pending"
    /\ Web([session_state EXCEPT
              !.messages = add_message(@, "assistant", script.response.response)],
           [script EXCEPT !.pc = "rerun"])

\* st.rerun(): the run ends here and the script starts again, no widget
\* reporting a value
Rerun ==
    /\ script.pc = "rerun"
    /\ Web(session_state, StartRun(PyNone))

\* prompt = st.chat_input(...); if prompt: add_message("user", prompt);
\* otherwise the run is over
ChatInput ==
    /\ script.pc = "chat_input"
    /\ IF script.event.t = "prompt"
       THEN Web([session_state EXCEPT
                   !.messages = add_message(@, "user", script.event)],
                [script EXCEPT !.pc = "agent_chat", !.query = script.event])
       ELSE Web(session_state, NoRun)

\* with st.spinner(...): response = query_agent(agent1, prompt)
AgentChat(outcome) ==
    /\ script.pc = "agent_chat"
    /\ Web(session_state,
           [script EXCEPT !.pc = "reply_chat",
                          !.response = query_agent(script.query, outcome)])

\* add_message("assistant", response["response"]); the run is over
ReplyChat ==
    /\ script.pc = "reply_chat"
    /\ Web([session_state EXCEPT
              !.messages = add_message(@, "assistant", script.response.response)],
           NoRun)

\* The user acts on a widget while query_agent is still running.  The run
\* is stopped at its next Streamlit command (leaving the spinner, line 95
\* or 122-124), before the add_message that follows, and the script starts
\* again with the new widget value; session_state stays as the stopped run
\* left it.
Interrupt(e) ==
    /\ script.pc \in {"agent_pending", "agent_chat"}
    /\ Room
    /\ Web(session_state, StartRun(e))

\* runs that are never stopped before their end
UninterruptedNext ==
    \/ \E e \in WidgetEvents : UserEvent(e)
    \/ Sidebar
    \/ PendingBranch
    \/ \E outcome \in AgentOutcomes : AgentPending(outcome)
    \/ ReplyPending
    \/ Rerun
    \/ ChatInput
    \/ \E outcome \in AgentOutcomes : AgentChat(outcome)
    \/ ReplyChat

WebNext ==
    \/ UninterruptedNext
    \/ \E e \in WidgetEvents : Interrupt(e)

WebSpec == WebInit /\ [][WebNext]_vars

UninterruptedSpec == WebInit /\ [][UninterruptedNext]_vars

\* ------------------------------------------------------------------------
\* Observations of an invocation
\* ------------------------------------------------------------------------
\* the parser has run in the current invocation
AfterParse == pc \notin {"idle", "called"}
\* the type has been resolved in the current invocation
AfterResolve == AfterParse /\ calculation_type # PyNone
\* the calculator of the type was called and returned an outcome
CalculatorReturned == AfterResolve /\ result # PyNone
\* the calculator of the type was called and raised
CalculatorRaised ==
    /\ AfterResolve /\ pc = "raised"
    /\ PresenceCheck(calculation_type.s, parsed.params) = <<>>
CalculatorCalled == CalculatorReturned \/ CalculatorRaised
\* the invocation is over
Ended == pc \in {"returned", "raised"}

\* the query is positional text (json.loads rejects it)
IsPositional(q) == q.kind = "text" /\ IsExc(json_loads(q))
\* the query is a structured object
IsObject(q) == q.kind = "json" /\ q.doc.j = "object"
HasMember(doc, key) == \E i \in 1..Len(doc.members) : doc.members[i][1] = key
Member(doc, key) ==
    doc.members[CHOOSE i \in 1..Len(doc.members) :
                   doc.members[i][1] = key
                   /\ \A j \in (i + 1)..Len(doc.members) : doc.members[j][1] # key][2]

\* ------------------------------------------------------------------------
\* C1  For every query, execute_financial_calculation returns a string and
\*     never raises: an exception raised while a calculator runs is caught
\*     and converted to an error string.
\*     Stated as the claim has it, for the invocations that reach a
\*     calculator; the code has no handler around the calculators.
\* ------------------------------------------------------------------------
C1_NeverRaises ==
    Ended /\ CalculatorCalled => pc = "returned" /\ returned.kind = "text"

\* ------------------------------------------------------------------------
\* C2  Whenever parse_calculation_request returns success, params is a
\*     mapping that contains the key `type`, so params["type"] cannot fail.
\*     Stated as the claim has it; a JSON array or string that contains
\*     "type" passes the membership test without being a mapping.
\* ------------------------------------------------------------------------
C2_SuccessHasTypeKey ==
    AfterParse /\ parsed.success =>
        /\ parsed.params.t = "dict"
        /\ s_type \in DOMAIN parsed.params.v

\* ------------------------------------------------------------------------
\* The positional grammar, stated by token position (1 is the type token)
\* ------------------------------------------------------------------------
Parts(q) == Split(q.text)
TypeOf(q) == Lower(Parts(q)[1])
GrammarTypes == RecognizedTypes \cup {s_compare, s_comparar}

\* the fewest tokens with which the grammar of a type reads its parameters
MinTokens(t) ==
    CASE t \in roi_types -> 3
      [] t \in compound_types \cup loan_types -> 4
      [] t \in ratio_types -> 2
      [] t \in npv_types -> 3
      [] t \in irr_types -> 2
      [] t \in {s_compare, s_comparar} -> 3
      [] OTHER -> 1
\* the positions the grammar of type t converts with float() among n tokens
NumericPositions(t, n) ==
    IF n < MinTokens(t) THEN {}
    ELSE CASE t \in roi_types -> {2, 3}
           [] t \in compound_types \cup loan_types -> {2, 3, 4}
           [] t \in ratio_types -> 3..n
           [] t \in npv_types -> 2..n
           [] t \in irr_types -> 2..n
           [] OTHER -> {}
\* the positions the grammar of type t reads among n tokens
Consumed(t, n) ==
    IF n < MinTokens(t) THEN {}
    ELSE CASE t \in roi_types -> {2, 3}
           [] t \in compound_types -> {2, 3, 4, 5} \cap (1..n)
           [] t \in loan_types -> {2, 3, 4}
           [] t \in ratio_types \cup npv_types \cup irr_types -> 2..n
           [] t \in {s_compare, s_comparar} -> 2..n
           [] OTHER -> {}
\* the keys the grammar of type t can set
GrammarKeys(t) ==
    CASE t \in roi_types -> {s_initial, s_final}
      [] t \in compound_types -> {s_principal, s_rate, s_periods, s_frequency}
      [] t \in loan_types -> {s_principal, s_rate, s_periods}
      [] t \in ratio_types -> {s_ratio_name, s_values}
      [] t \in npv_types -> {s_rate, s_cash_flows}
      [] t \in irr_types -> {s_cash_flows}
      [] t \in {s_compare, s_comparar} -> {s_metric, s_tickers}
      [] OTHER -> {}

\* a calculation type can be determined from the query
TypeDeterminable(q) ==
    \/ IsObject(q) /\ HasMember(q.doc, s_type)
    \/ IsPositional(q) /\ Parts(q) # <<>>
\* a token at a numeric position of the grammar is not a number
HasBadNumber(q) ==
    /\ IsPositional(q) /\ Parts(q) # <<>>
    /\ \E i \in NumericPositions(TypeOf(q), Len(Parts(q))) : IsExc(float(Parts(q)[i]))

\* ------------------------------------------------------------------------
\* C3 (as claimed)  The missing-type failure is the only failure of
\*     parse_calculation_request: for every query from which a type can be
\*     determined, parsing succeeds, whatever the remaining tokens are.
\* ------------------------------------------------------------------------
C3_OnlyMissingTypeFails == AfterParse /\ TypeDeterminable(query) => parsed.success

\* ------------------------------------------------------------------------
\* C3 (amended)  For every query from which a type can be determined,
\*     parsing succeeds unless the query is positional and a token at a
\*     numeric position of the grammar of its type is not a number; then
\*     parsing fails with the conversion error.
\* ------------------------------------------------------------------------
C3_FailsExactlyOnBadNumber ==
    AfterParse /\ TypeDeterminable(query) =>
        /\ parsed.success <=> ~HasBadNumber(query)
        /\ ~parsed.success =>
              parsed.error = ExcText(Exc("ValueError", "could not convert string to float"))

C3_Witness ==
    /\ AfterParse /\ IsPositional(query) /\ HasBadNumber(query)
    /\ TypeOf(query) \in ratio_types
    /\ ~parsed.success

\* ------------------------------------------------------------------------
\* C4  In a structured request a numeric field that cannot be coerced (a
\*     non-numeric string for initial, principal, rate, periods) produces a
\*     calculator-level failure outcome, not an uncaught exception.
\*     Stated as the claim has it; the code passes the field to the
\*     calculator as it is and the comparison raises.
\* ------------------------------------------------------------------------
NumericFields(t) ==
    CASE t \in roi_types -> {s_initial, s_final}
      [] t \in compound_types \cup loan_types -> {s_principal, s_rate, s_periods}
      [] OTHER -> {}
\* a structured request of a numeric calculator with every required field,
\* one of them a string that is not a number
BadNumericField(q) ==
    /\ IsObject(q) /\ HasMember(q.doc, s_type) /\ Member(q.doc, s_type).j = "string"
    /\ LET t == Lower(Member(q.doc, s_type).s)
       IN /\ NumericFields(t) # {}
          /\ \A k \in NumericFields(t) : HasMember(q.doc, k)
          /\ \E k \in NumericFields(t) :
                /\ Member(q.doc, k).j = "string"
                /\ IsExc(float(Member(q.doc, k).s))
          /\ \A k \in NumericFields(t) : Member(q.doc, k).j \in {"string", "number"}

C4_BadFieldIsValidationFailure ==
    Ended /\ BadNumericField(query) =>
        /\ pc = "returned"
        /\ CalculatorReturned
        /\ ~result.success

\* ------------------------------------------------------------------------
\* C5  Parser equivalence: a positional query and the structured request
\*     carrying the same type and the same parameter values give the same
\*     outcome and the identical rendered text ("roi 1000 1500" and
\*     {type: roi, initial: 1000, final: 1500}).
\*     Stated as the claim has it; the structured numbers are not coerced
\*     to float (C4), so a period count renders as 2 instead of 2.0.
\* ------------------------------------------------------------------------
\* a token that is an integer literal
IsIntToken(tok) == IsJSONNumber(tok) /\ \A i \in 1..Len(tok) : tok[i] # "."
JIntOf(tok) == JInt(float(tok).n)
JIntArray(toks) == JArray([i \in 1..Len(toks) |-> JIntOf(toks[i])])

\* a positional query of a recognized type with all its parameters, the
\* numeric ones written as integers
FullPositional(q) ==
    /\ IsPositional(q) /\ Parts(q) # <<>>
    /\ TypeOf(q) \in RecognizedTypes
    /\ Len(Parts(q)) >= MinTokens(TypeOf(q))
    /\ \A i \in NumericPositions(TypeOf(q), Len(Parts(q))) : IsIntToken(Parts(q)[i])

\* the structured request with the type token and the parameter values of
\* the positional query q
StructuredOf(q) ==
    LET parts == Parts(q)
        n == Len(parts)
        t == TypeOf(q)
        typ == <<s_type, JString(parts[1])>>
    IN JsonQuery(JObject(
         CASE t \in roi_types ->
                <<typ, <<s_initial, JIntOf(parts[2])>>, <<s_final, JIntOf(parts[3])>> >>
           [] t \in compound_types ->
                <<typ, <<s_principal, JIntOf(parts[2])>>, <<s_rate, JIntOf(parts[3])>>,
                  <<s_periods, JIntOf(parts[4])>> >>
                \o (IF n >= 5 THEN << <<s_frequency, JString(parts[5])>> >> ELSE <<>>)
           [] t \in loan_types ->
                <<typ, <<s_principal, JIntOf(parts[2])>>, <<s_rate, JIntOf(parts[3])>>,
                  <<s_periods, JIntOf(parts[4])>> >>
           [] t \in ratio_types ->
                <<typ, <<s_ratio_name, JString(parts[2])>>,
                  <<s_values, JIntArray(From(parts, 2))>> >>
           [] t \in npv_types ->
                <<typ, <<s_rate, JIntOf(parts[2])>>, <<s_cash_flows, JIntArray(From(parts, 2))>> >>
           [] t \in irr_types ->
                <<typ, <<s_cash_flows, JIntArray(From(parts, 1))>> >>))

C5_ParserEquivalence ==
    Ended /\ FullPositional(query) =>
        \E solver \in IrrOutcomes :
            returned = execute_financial_calculation(StructuredOf(query), solver)

\* ------------------------------------------------------------------------
\* C6  Type tokens are alias-resolved and case-insensitive on both input
\*     paths, and any other type token never reaches a calculator and
\*     yields the unrecognized-type error.
\*     Stated as the claim has it; on the positional path of an
\*     unrecognized type a token type=... replaces the type.
\* ------------------------------------------------------------------------
HasTypeToken(q) ==
    \/ IsPositional(q) /\ Parts(q) # <<>>
    \/ IsObject(q) /\ HasMember(q.doc, s_type) /\ Member(q.doc, s_type).j = "string"
TypeTokenOf(q) == IF q.kind = "text" THEN Parts(q)[1] ELSE Member(q.doc, s_type).s
\* the first alias of the group of a recognized type
Canonical(t) ==
    CASE t \in roi_types -> s_roi
      [] t \in compound_types -> s_compuesto
      [] t \in loan_types -> s_prestamo
      [] t \in ratio_types -> s_ratio
      [] t \in npv_types -> s_npv
      [] t \in irr_types -> s_irr
\* the query q with its type token replaced by t
WithType(q, t) ==
    IF q.kind = "text" THEN TextQuery(<<t>> \o Tail(Parts(q)))
    ELSE JsonQuery(JObject([i \in 1..Len(q.doc.members) |->
                              IF q.doc.members[i][1] = s_type
                              THEN <<s_type, JString(t)>>
                              ELSE q.doc.members[i]]))

C6_TypeTokenDecides ==
    AfterParse /\ HasTypeToken(query) =>
        LET t == Lower(TypeTokenOf(query))
        IN IF t \in RecognizedTypes
           THEN Ended => \E solver \in IrrOutcomes :
                    returned = execute_financial_calculation(WithType(query, Canonical(t)), solver)
           ELSE /\ ~CalculatorCalled
                /\ pc # "checked"
                /\ pc = "returned" => returned = Text(<<msg_unrecognized(t)>>)

\* ------------------------------------------------------------------------
\* C7 (as claimed)  In positional parsing, any key=value token that the
\*     positional grammar of the query's type does not consume is captured
\*     as parameter `key`, a float when the value is a number and the raw
\*     string otherwise.
\* ------------------------------------------------------------------------
\* the value captured for the text after the first "="
CapturedValue(value) == IF IsExc(float(value)) THEN PyStr(value) ELSE float(value)

C7_UnconsumedKeyValueCaptured ==
    AfterParse /\ IsPositional(query) /\ parsed.success =>
        LET parts == Parts(query)
            n == Len(parts)
        IN \A i \in 2..n :
              HasEq(parts[i]) /\ i \notin Consumed(TypeOf(query), n) =>
                  /\ SplitEqKey(parts[i]) \in DOMAIN parsed.params.v
                  /\ parsed.params.v[SplitEqKey(parts[i])] = CapturedValue(SplitEqValue(parts[i]))

\* ------------------------------------------------------------------------
\* C7 (amended)  key=value tokens are captured only when the type token is
\*     none of the positional grammars (the six calculators and
\*     compare|comparar): then every key=value token after the type is
\*     captured as parameter `key` (the text before the first "="), holding
\*     a float when the rest is a number and the raw string otherwise, the
\*     last token of a key deciding its value, and nothing else is added;
\*     for a type with a grammar no key=value token is captured.
\* ------------------------------------------------------------------------
C7_KeyValueOnlyWithoutGrammar ==
    AfterParse /\ IsPositional(query) /\ parsed.success =>
        LET parts == Parts(query)
            n == Len(parts)
            t == TypeOf(query)
            kv == {i \in 2..n : HasEq(parts[i])}
            last == {i \in kv : \A j \in kv : j > i => SplitEqKey(parts[j]) # SplitEqKey(parts[i])}
            params == parsed.params.v
        IN IF t \in GrammarTypes
           THEN /\ DOMAIN params \subseteq {s_type} \cup GrammarKeys(t)
                /\ params[s_type] = PyStr(t)
           ELSE /\ DOMAIN params = {s_type} \cup {SplitEqKey(parts[i]) : i \in kv}
                /\ \A i \in last :
                      params[SplitEqKey(parts[i])] = CapturedValue(SplitEqValue(parts[i]))
                /\ (\A i \in kv : SplitEqKey(parts[i]) # s_type) => params[s_type] = PyStr(t)

C7_Witness ==
    /\ AfterParse /\ IsPositional(query) /\ parsed.success
    /\ TypeOf(query) \notin GrammarTypes
    /\ \E i, j \in 2..Len(Parts(query)) :
          /\ i < j
          /\ HasEq(Parts(query)[i]) /\ HasEq(Parts(query)[j])
          /\ SplitEqKey(Parts(query)[i]) = SplitEqKey(Parts(query)[j])
          /\ IsNum(CapturedValue(SplitEqValue(Parts(query)[i])))
          /\ IsStr(parsed.params.v[SplitEqKey(Parts(query)[j])])

\* ------------------------------------------------------------------------
\* C8  The dispatcher runs parse -> required-field check -> calculator ->
\*     formatter: when a key required by the resolved type is absent
\*     (also for a positional query with too few tokens) it returns the
\*     field-specific error and neither the calculator nor the formatter
\*     runs; the formatter is reached only after a calculator returned
\*     success.
\* ------------------------------------------------------------------------
\* a key required by the resolved, recognized type is absent
MissingRequired ==
    /\ AfterResolve
    /\ calculation_type.s \in RecognizedTypes
    /\ ~(RequiredKeys(calculation_type.s) \subseteq DOMAIN parsed.params.v)

C8_StepOrder ==
    /\ MissingRequired =>
          /\ pc \in {"resolved", "returned"}
          /\ result = PyNone
          /\ pc = "returned" => returned = Text(<<msg_required_fields(calculation_type.s)>>)
    /\ pc \in {"checked", "calculated", "formatting"} =>
          /\ parsed.success /\ AfterResolve
          /\ RequiredKeys(calculation_type.s) \subseteq DOMAIN parsed.params.v
    /\ pc = "formatting" => CalculatorReturned /\ result.success
    /\ pc = "returned" /\ CalculatorReturned /\ ~result.success =>
          returned = Text(<< <<Lit("Error en el calculo: ")>> \o result.error >>)

C8_Witness ==
    /\ pc = "returned" /\ MissingRequired
    /\ IsPositional(query)
    /\ Len(Parts(query)) = 2
    /\ calculation_type.s \in roi_types
    /\ returned = Text(<<msg_required_fields(s_roi)>>)

\* ------------------------------------------------------------------------
\* C9  Every calculator outcome is tagged and complete: success with a
\*     result record and no error, or failure with one error string and no
\*     result; the dispatcher returns either an error string or the whole
\*     narrative of a successful result.
\* ------------------------------------------------------------------------
\* the fields of the result record of each calculator
ResultFields(t) ==
    CASE t \in roi_types ->
           {"roi", "roi_percent", "initial_investment", "final_value", "profit_loss"}
      [] t \in compound_types ->
           {"principal", "rate", "periods", "frequency", "compound_frequency",
            "final_amount", "interest_earned"}
      [] t \in loan_types ->
           {"principal", "rate", "periods", "monthly_payment", "total_payments",
            "total_interest", "amortization_sample"}
      [] t \in ratio_types ->
           {"ratio_name", "description", "values", "ratio_value", "ratio_percentage",
            "explanation"}
      [] t \in npv_types -> {"npv", "rate", "cash_flows", "detailed_results", "interpretation"}
      [] t \in irr_types -> {"irr", "irr_percent", "cash_flows", "interpretation"}
\* the number of lines of the narrative before and after the per-period or
\* per-value lines
FixedLines(t) ==
    CASE t \in roi_types -> 7
      [] t \in compound_types -> 8
      [] t \in loan_types -> 9
      [] t \in ratio_types -> 8
      [] t \in npv_types -> 8
      [] t \in irr_types -> 5
\* the number of per-period or per-value lines of the narrative
ItemLines(t, data) ==
    CASE t \in loan_types ->
           Len(data.amortization_sample)
             + (IF NumGt(data.periods, PyInt(10)) /\ NumTrunc(data.periods) >= 5 THEN 1 ELSE 0)
      [] t \in ratio_types -> Len(data.values)
      [] t \in npv_types -> Len(Items(data.cash_flows))
      [] OTHER -> 0

C9_TaggedAndComplete ==
    /\ CalculatorReturned =>
          \/ /\ result.success
             /\ DOMAIN result = {"success", "result"}
             /\ DOMAIN result.result = ResultFields(calculation_type.s)
          \/ /\ ~result.success
             /\ DOMAIN result = {"success", "error"}
             /\ result.error # <<>>
    /\ pc = "returned" =>
          /\ returned.kind = "text"
          /\ \/ /\ Len(returned.lines) = 1
                /\ returned.lines[1][1].f = "lit"
                /\ returned.lines[1][1].lit \in
                      {"Error: ", "Error en el calculo: ", "Error: Tipo de calculo '"}
                      \cup {msg_required_fields(t)[1].lit : t \in RecognizedTypes}
                /\ CalculatorReturned => ~result.success
             \/ /\ CalculatorReturned /\ result.success
                /\ Len(returned.lines) =
                      FixedLines(calculation_type.s)
                        + ItemLines(calculation_type.s, result.result)

C9_Witness ==
    /\ pc = "returned" /\ CalculatorReturned /\ result.success
    /\ calculation_type.s \in loan_types
    /\ Len(returned.lines) = 11

\* ------------------------------------------------------------------------
\* C10 Positivity preconditions come before any computation and name the
\*     failing field: calculate_roi fails when initial <= 0;
\*     calculate_compound_interest when principal <= 0, else when
\*     rate <= 0; calculate_loan_payment when principal <= 0, else
\*     rate <= 0, else periods <= 0; the error is the one of the first
\*     violated field and no result is produced.
\* ------------------------------------------------------------------------
NonPositive(x) == IsNum(x) /\ NumLe(x, Zero)
Positive(x) == IsNum(x) /\ NumGt(x, Zero)

\* the failure the preconditions of the calculator of type t prescribe for
\* the parameters p, or <<>> when they prescribe none
Precondition(t, p) ==
    CASE t \in roi_types ->
           IF NonPositive(p[s_initial]) THEN msg_roi_initial ELSE <<>>
      [] t \in compound_types ->
           IF NonPositive(p[s_principal]) THEN msg_ci_principal
           ELSE IF Positive(p[s_principal]) /\ NonPositive(p[s_rate]) THEN msg_rate
           ELSE <<>>
      [] t \in loan_types ->
           IF NonPositive(p[s_principal]) THEN msg_loan_principal
           ELSE IF Positive(p[s_principal]) /\ NonPositive(p[s_rate]) THEN msg_rate
           ELSE IF Positive(p[s_principal]) /\ Positive(p[s_rate]) /\ NonPositive(p[s_periods])
                THEN msg_periods
           ELSE <<>>
      [] OTHER -> <<>>

C10_PositivityInOrder ==
    CalculatorCalled /\ Precondition(calculation_type.s, parsed.params.v) # <<>> =>
        /\ CalculatorReturned
        /\ result = Failure(Precondition(calculation_type.s, parsed.params.v))

C10_Witness ==
    /\ CalculatorReturned
    /\ calculation_type.s \in loan_types
    /\ Positive(parsed.params.v[s_principal])
    /\ NonPositive(parsed.params.v[s_rate])
    /\ NonPositive(parsed.params.v[s_periods])
    /\ result = Failure(msg_rate)

\* ------------------------------------------------------------------------
\* C11 (as claimed)  When the monthly rate is exactly 0,
\*     calculate_loan_payment returns success with
\*     monthly_payment == principal / periods and no division error.
\* ------------------------------------------------------------------------
\* the loan calculator was called with three numbers
LoanCall ==
    /\ CalculatorCalled /\ calculation_type.s \in loan_types
    /\ \A k \in {s_principal, s_rate, s_periods} : IsNum(parsed.params.v[k])
\* the call passes the principal and periods checks and its monthly rate is 0
ZeroMonthlyRate ==
    /\ LoanCall
    /\ Positive(parsed.params.v[s_principal]) /\ Positive(parsed.params.v[s_periods])
    /\ NumIsZero(MonthlyRate(parsed.params.v[s_rate]))
PaysPrincipalOverPeriods ==
    /\ CalculatorReturned /\ result.success
    /\ result.result.monthly_payment =
          NumDiv(parsed.params.v[s_principal], parsed.params.v[s_periods])

C11_ZeroRateSucceeds == ZeroMonthlyRate => PaysPrincipalOverPeriods

\* ------------------------------------------------------------------------
\* C11 (amended)  A rate of 0 is rejected with the rate error like every
\*     rate <= 0; the zero-rate branch is taken only when a positive rate
\*     underflows to a monthly rate of exactly 0, and then
\*     calculate_loan_payment returns success with
\*     monthly_payment == principal / periods and no division error.
\* ------------------------------------------------------------------------
C11_ZeroBranchOnlyByUnderflow ==
    ZeroMonthlyRate =>
        IF Positive(parsed.params.v[s_rate])
        THEN PaysPrincipalOverPeriods /\ result.result.total_interest = PyFloat(0, 1)
        ELSE CalculatorReturned /\ result = Failure(msg_rate)

C11_Witness ==
    /\ ZeroMonthlyRate /\ Positive(parsed.params.v[s_rate])
    /\ pc = "returned" /\ PaysPrincipalOverPeriods

\* ------------------------------------------------------------------------
\* C12 For a successful loan request with n periods the amortization sample
\*     holds exactly the entries of the periods in {1..5} or {n-4..n}, each
\*     once, in ascending order (min(n, 10) entries), while total_interest
\*     is the sum of the interest of all n periods and total_payments
\*     covers all n periods.
\* ------------------------------------------------------------------------
\* two numbers of the same value
SameValue(a, b) == IsNum(a) /\ IsNum(b) /\ a.n = b.n /\ a.d = b.d
\* the loan calculator returned success for a whole number of periods
LoanSuccess == LoanCall /\ CalculatorReturned /\ result.success
WholePeriods == parsed.params.v[s_periods].d = 1

RECURSIVE BalanceAfter(_, _, _, _)
\* the balance after k periods of the schedule
BalanceAfter(k, principal, monthly_rate, monthly_payment) ==
    IF k = 0 THEN principal
    ELSE LET before == BalanceAfter(k - 1, principal, monthly_rate, monthly_payment)
         IN NumSub(before, NumSub(monthly_payment, NumMul(before, monthly_rate)))
\* the interest of period k
InterestOf(k, principal, monthly_rate, monthly_payment) ==
    NumMul(BalanceAfter(k - 1, principal, monthly_rate, monthly_payment), monthly_rate)
RECURSIVE InterestUpTo(_, _, _, _)
InterestUpTo(k, principal, monthly_rate, monthly_payment) ==
    IF k = 0 THEN Zero
    ELSE NumAdd(InterestUpTo(k - 1, principal, monthly_rate, monthly_payment),
                InterestOf(k, principal, monthly_rate, monthly_payment))
\* the periods to retain, in ascending order
RECURSIVE Ascending(_, _)
Ascending(S, from) ==
    IF \A x \in S : x < from THEN <<>>
    ELSE IF from \in S THEN <<from>> \o Ascending(S, from + 1)
    ELSE Ascending(S, from + 1)

C12_SampleAndFullTotals ==
    LoanSuccess /\ WholePeriods =>
        LET principal == parsed.params.v[s_principal]
            n == NumTrunc(parsed.params.v[s_periods])
            monthly_rate == MonthlyRate(parsed.params.v[s_rate])
            data == result.result
            sample == data.amortization_sample
            kept == Ascending({k \in 1..n : k <= 5 \/ k >= n - 4}, 1)
        IN /\ Len(sample) = Min(n, 10)
           /\ [i \in 1..Len(sample) |-> sample[i].periodo] = kept
           /\ \A i \in 1..Len(sample) :
                 /\ SameValue(sample[i].interes,
                              InterestOf(sample[i].periodo, principal, monthly_rate,
                                         data.monthly_payment))
                 /\ SameValue(sample[i].balance_restante,
                              Max0(BalanceAfter(sample[i].periodo, principal, monthly_rate,
                                                data.monthly_payment)))
                 /\ SameValue(sample[i].pago, data.monthly_payment)
           /\ SameValue(data.total_interest,
                        InterestUpTo(n, principal, monthly_rate, data.monthly_payment))
           /\ SameValue(data.total_payments, NumMul(data.monthly_payment, PyInt(n)))

C12_Witness ==
    /\ LoanSuccess /\ WholePeriods /\ pc = "returned"
    /\ NumTrunc(parsed.params.v[s_periods]) = 12
    /\ Len(result.result.amortization_sample) = 10
    /\ result.result.amortization_sample[6].periodo = 8

\* ------------------------------------------------------------------------
\* C13 For every loan request calculate_loan_payment accepts (principal,
\*     rate and periods > 0) the principal components of all simulated
\*     periods sum to the principal: the running balance is zero after the
\*     last simulated period and total_payments equals
\*     principal + total_interest.
\*     The model's numbers are exact, so the tolerance is zero.
\* ------------------------------------------------------------------------
C13_PrincipalRepaid ==
    LoanSuccess =>
        LET principal == parsed.params.v[s_principal]
            periods == parsed.params.v[s_periods]
            data == result.result
            last == BalanceAfter(NumTrunc(periods), principal,
                                 MonthlyRate(parsed.params.v[s_rate]), data.monthly_payment)
        IN /\ NumIsZero(last)
           /\ SameValue(data.total_payments, NumAdd(principal, data.total_interest))

\* the same for a whole number of periods
C13_WholePeriodsRepaid == LoanSuccess /\ WholePeriods => C13_PrincipalRepaid

\* ------------------------------------------------------------------------
\* C14 An unknown ratio name (after lower-casing) makes
\*     calculate_financial_ratio fail before any value is inspected, with a
\*     message that enumerates exactly the eight names current, quick, debt,
\*     roe, roa, profit_margin, pe, pb; a known name in any letter case is
\*     accepted.
\* ------------------------------------------------------------------------
\* the ratio calculator was called with a string for the name
RatioCall ==
    /\ CalculatorCalled /\ calculation_type.s \in ratio_types
    /\ IsStr(parsed.params.v[s_ratio_name])
EightNames == <<s_current, s_quick, s_debt, s_roe, s_roa, s_profit_margin, s_pe, s_pb>>
UnknownRatioFailure ==
    Failure(<<Lit("Ratio no reconocido. Ratios disponibles: "),
              [f |-> "join", names |-> EightNames]>>)
KnownName == \E i \in 1..8 : Lower(parsed.params.v[s_ratio_name].s) = EightNames[i]

C14_UnknownRatioName ==
    RatioCall =>
        IF KnownName
        THEN CalculatorReturned => result # UnknownRatioFailure
        ELSE CalculatorReturned /\ result = UnknownRatioFailure

C14_Witness ==
    /\ RatioCall /\ ~KnownName /\ pc = "returned"
    /\ result = UnknownRatioFailure
    /\ ~IsIterable(parsed.params.v[s_values])

\* ------------------------------------------------------------------------
\* C15 Ratio sign validation: for a known ratio given its required values,
\*     a negative value is rejected (failure naming its label) if and only
\*     if its label is not a liability label; negative values at the
\*     liability positions (current[1], quick[2], debt[0]) are accepted, and
\*     with no negative non-liability value the sign check passes.
\* ------------------------------------------------------------------------
\* the ratio calculator was called for a known ratio with exactly its
\* required number of values, all numbers
RatioName == Lower(parsed.params.v[s_ratio_name].s)
RatioValues == parsed.params.v[s_values].v
RequiredValuesGiven ==
    /\ RatioCall /\ KnownName
    /\ parsed.params.v[s_values].t = "list"
    /\ Len(RatioValues) = (IF RatioName = s_quick THEN 3 ELSE 2)
    /\ \A i \in 1..Len(RatioValues) : IsNum(RatioValues[i])
\* the 1-based positions of the liability values
LiabilityPositions ==
    CASE RatioName = s_current -> {2}
      [] RatioName = s_quick -> {3}
      [] RatioName = s_debt -> {1}
      [] OTHER -> {}
RejectedPositions ==
    {i \in 1..Len(RatioValues) : NumLt(RatioValues[i], Zero) /\ i \notin LiabilityPositions}
IsNegativeFailure(o) ==
    /\ ~o.success /\ Len(o.error) = 3
    /\ o.error[3] = Lit(" debe ser mayor o igual a cero.")

C15_SignValidation ==
    RequiredValuesGiven =>
        /\ CalculatorReturned
        /\ IF RejectedPositions = {}
           THEN ~IsNegativeFailure(result)
           ELSE LET first == CHOOSE i \in RejectedPositions : \A j \in RejectedPositions : i <= j
                IN result = Failure(<<Lit("El valor para "),
                                      [f |-> "labels", labels |-> <<ratios(RatioName).labels[first]>>],
                                      Lit(" debe ser mayor o igual a cero.")>>)

\* a negative liability is accepted and the ratio computed
C15_Witness ==
    /\ RequiredValuesGiven /\ pc = "returned"
    /\ RatioName = s_quick
    /\ NumLt(RatioValues[3], Zero)
    /\ RejectedPositions = {}
    /\ result.success

\* ------------------------------------------------------------------------
\* C16 For each of the eight ratios a zero denominator (current liabilities
\*     for current and quick, total assets for debt and roa, equity for roe,
\*     net sales for profit_margin, eps for pe, book value for pb) yields a
\*     failure and no division; with a non-zero denominator and valid
\*     inputs the ratio value is the catalog formula, and ratio_percentage
\*     is present exactly for debt, roe, roa and profit_margin.
\* ------------------------------------------------------------------------
\* the inputs pass the sign validation
ValidRatioInputs == RequiredValuesGiven /\ RejectedPositions = {}
\* the denominator and the formula of the catalog
CatalogDenominator == IF RatioName = s_quick THEN RatioValues[3] ELSE RatioValues[2]
CatalogFormula ==
    IF RatioName = s_quick
    THEN NumDiv(NumSub(RatioValues[1], RatioValues[2]), RatioValues[3])
    ELSE NumDiv(RatioValues[1], RatioValues[2])
PercentageRatios == {s_debt, s_roe, s_roa, s_profit_margin}

C16_ZeroDenominatorAndFormula ==
    ValidRatioInputs =>
        /\ CalculatorReturned
        /\ IF NumIsZero(CatalogDenominator)
           THEN /\ ~result.success
                /\ Len(result.error) = 1 /\ result.error[1].f = "lit"
           ELSE /\ result.success
                /\ result.result.ratio_name = RatioName
                /\ SameValue(result.result.ratio_value, CatalogFormula)
                /\ IF RatioName \in PercentageRatios
                   THEN SameValue(result.result.ratio_percentage,
                                  NumMul(CatalogFormula, PyInt(100)))
                   ELSE result.result.ratio_percentage = PyNone

C16_Witness ==
    /\ ValidRatioInputs /\ pc = "returned"
    /\ RatioName = s_quick
    /\ ~NumIsZero(RatioValues[2]) /\ NumIsZero(RatioValues[3])
    /\ ~result.success

\* ------------------------------------------------------------------------
\* C17 The current-ratio explanation is banded by fixed thresholds: every
\*     successful current ratio gets exactly one band, the "problems
\*     covering obligations" band when result < 1, the "adequate" band when
\*     1 <= result < 1.5 and the "good liquidity" band when result >= 1.5;
\*     so (200, 100) gives 2.00 with the good-liquidity band and (50, 100)
\*     gives 0.50 with the problems band.
\* ------------------------------------------------------------------------
ProblemsBand ==
    Lit("Esto puede indicar problemas para cubrir las obligaciones a corto plazo.")
AdequateBand ==
    Lit("Esto indica una capacidad adecuada para cubrir las obligaciones a corto plazo.")
GoodLiquidityBand ==
    Lit("Esto indica una buena liquidez, aunque un ratio muy alto podria sugerir un uso ineficiente de los activos.")
CurrentBands == {ProblemsBand, AdequateBand, GoodLiquidityBand}
\* a successful current ratio
CurrentSuccess ==
    /\ ValidRatioInputs /\ RatioName = s_current
    /\ CalculatorReturned /\ result.success
\* the pieces of the explanation that are bands
BandsOf(e) == {i \in 1..Len(e) : e[i] \in CurrentBands}
IsPair(a, b) == SameValue(RatioValues[1], PyInt(a)) /\ SameValue(RatioValues[2], PyInt(b))

C17_CurrentBands ==
    CurrentSuccess =>
        LET e == result.result.explanation
            r == result.result.ratio_value
            band == IF NumLt(r, PyInt(1)) THEN ProblemsBand
                    ELSE IF NumLt(r, PyFloat(3, 2)) THEN AdequateBand
                    ELSE GoodLiquidityBand
        IN /\ BandsOf(e) = {Len(e)}
           /\ e[Len(e)] = band
           /\ IsPair(200, 100) => e[2] = [f |-> "2f", cents |-> 200] /\ band = GoodLiquidityBand
           /\ IsPair(50, 100) => e[2] = [f |-> "2f", cents |-> 50] /\ band = ProblemsBand

\* the lower threshold itself: a ratio of exactly 1 is adequate
C17_Witness ==
    /\ CurrentSuccess /\ pc = "returned"
    /\ SameValue(result.result.ratio_value, PyInt(1))
    /\ result.result.explanation[Len(result.result.explanation)] = AdequateBand

\* ------------------------------------------------------------------------
\* C18 calculate_irr on an empty series, or on a series without both a
\*     strictly positive and a strictly negative value (all positive, all
\*     negative, all zero), always returns a validation failure, and the
\*     solver is never invoked on that path: the outcome is the same
\*     whatever the solver would have answered.
\* ------------------------------------------------------------------------
\* the IRR calculator was called with a list of numbers
IrrCall ==
    /\ CalculatorCalled /\ calculation_type.s \in irr_types
    /\ parsed.params.v[s_cash_flows].t = "list"
    /\ \A i \in 1..Len(parsed.params.v[s_cash_flows].v) :
          IsNum(parsed.params.v[s_cash_flows].v[i])
CashFlows == parsed.params.v[s_cash_flows].v
BothSigns ==
    /\ \E i \in 1..Len(CashFlows) : NumGt(CashFlows[i], Zero)
    /\ \E i \in 1..Len(CashFlows) : NumLt(CashFlows[i], Zero)

C18_NoSolverWithoutBothSigns ==
    IrrCall /\ ~BothSigns =>
        LET expected == IF CashFlows = <<>>
                        THEN Failure(<<Lit("Se requiere al menos un flujo de caja.")>>)
                        ELSE Failure(<<Lit("Para calcular la TIR, se necesitan flujos de caja tanto positivos como negativos.")>>)
        IN /\ CalculatorReturned /\ result = expected
           /\ \A solver \in IrrOutcomes :
                 calculate_irr(parsed.params.v[s_cash_flows], solver) = expected

C18_Witness ==
    /\ IrrCall /\ pc = "returned"
    /\ Len(CashFlows) >= 2
    /\ \A i \in 1..Len(CashFlows) : NumIsZero(CashFlows[i])
    /\ ~result.success

\* ------------------------------------------------------------------------
\* C19 For a series with both signs for which the solver finds no rate (it
\*     raises, or yields a not-a-number value) calculate_irr returns a
\*     failure carrying a calculation-error string; it never returns
\*     success without a valid rate and never lets the fault escape.
\* ------------------------------------------------------------------------
C19_NoSuccessWithoutRate ==
    IrrCall /\ BothSigns =>
        /\ CalculatorReturned
        /\ result.success => ~IsNaN(result.result.irr)
        /\ ~result.success =>
              /\ Len(result.error) = 2
              /\ result.error[1] = Lit("Error al calcular la TIR: ")

\* the part of C19 about a solver that raises
C19_RaisingSolverIsFailure ==
    IrrCall /\ BothSigns =>
        \A solver \in IrrOutcomes :
            IsExc(solver) =>
                calculate_irr(parsed.params.v[s_cash_flows], solver) =
                    Failure(<<Lit("Error al calcular la TIR: "), Lit(solver.msg)>>)

\* ------------------------------------------------------------------------
\* C20 Every invocation of execute_financial_calculation terminates, with
\*     an answer or an exception; the amortization loop of a successful
\*     loan performs exactly int(periods) iterations (periods 1..int(periods)
\*     are simulated, no more and no fewer), and the IRR solve ends in a
\*     rate or a calculation failure.
\* ------------------------------------------------------------------------
\* the periods the loop went through, as the result shows them: the schedule
\* starts at period 1 and ends at period floor(periods), and total_interest
\* is the sum of the interest of exactly that many periods
IterationsExact ==
    LoanSuccess =>
        LET periods == parsed.params.v[s_periods]
            n == periods.n \div periods.d
            data == result.result
            sample == data.amortization_sample
        IN /\ n = 0 => sample = <<>>
           /\ n >= 1 => /\ sample # <<>>
                        /\ sample[1].periodo = 1
                        /\ sample[Len(sample)].periodo = n
           /\ SameValue(data.total_interest,
                        InterestUpTo(n, parsed.params.v[s_principal],
                                     MonthlyRate(parsed.params.v[s_rate]),
                                     data.monthly_payment))
\* the IRR solve, when reached, ended in a rate or in a failure
IrrSolveEnded ==
    IrrCall /\ BothSigns =>
        /\ CalculatorReturned
        /\ result.success => result.result.irr \in IrrOutcomes
        /\ ~result.success => result.error[1] = Lit("Error al calcular la TIR: ")

NpvCall ==
    /\ CalculatorCalled /\ calculation_type.s \in npv_types
    /\ IsNum(parsed.params.v[s_rate])
    /\ parsed.params.v[s_cash_flows].t = "list"
    /\ \A i \in 1..Len(parsed.params.v[s_cash_flows].v) :
          IsNum(parsed.params.v[s_cash_flows].v[i])
NpvFlows == parsed.params.v[s_cash_flows].v
\* 1 + rate / 100
DiscountBase == NumAdd(PyInt(1), NumDiv(parsed.params.v[s_rate], Hundred))
RECURSIVE SumOf(_, _)
\* the sum of the first k numbers of a sequence, from the left
SumOf(nums, k) == IF k = 0 THEN Zero ELSE NumAdd(SumOf(nums, k - 1), nums[k])
\* the success of the claim: present values, their sum and the detail
NpvSuccessAsSpecified ==
    /\ CalculatorReturned /\ result.success
    /\ LET detail == result.result.detailed_results
           n == Len(NpvFlows)
       IN /\ Len(detail) = n
          /\ \A k \in 1..n :
                /\ detail[k].periodo = k - 1
                /\ detail[k].flujo_caja = NpvFlows[k]
                /\ SameValue(detail[k].valor_presente,
                             NumDiv(NpvFlows[k], NumPow(DiscountBase, PyInt(k - 1))))
          /\ SameValue(result.result.npv,
                       SumOf([k \in 1..n |-> detail[k].valor_presente], n))

C21_FailsOnlyOnEmptySeries ==
    NpvCall =>
        IF NpvFlows = <<>>
        THEN /\ CalculatorReturned
             /\ result = Failure(<<Lit("Se requiere al menos un flujo de caja.")>>)
        ELSE NpvSuccessAsSpecified

\* the same, for the calls in which no discount factor is zero
C21_FailsOnlyOnEmptySeriesOrZeroFactor ==
    NpvCall /\ ~(NumIsZero(DiscountBase) /\ Len(NpvFlows) >= 2) =>
        C21_FailsOnlyOnEmptySeries

\* ------------------------------------------------------------------------
\* C22 For every non-empty series of numbers, the NPV at rate 0 is the plain
\*     sum of the cash flows and the present value of each period is its
\*     cash flow.
\* ------------------------------------------------------------------------
C22_RateZeroIsPlainSum ==
    NpvCall /\ NumIsZero(parsed.params.v[s_rate]) /\ NpvFlows # <<>> =>
        /\ CalculatorReturned /\ result.success
        /\ SameValue(result.result.npv, SumOf(NpvFlows, Len(NpvFlows)))
        /\ Len(result.result.detailed_results) = Len(NpvFlows)
        /\ \A k \in 1..Len(NpvFlows) :
              SameValue(result.result.detailed_results[k].valor_presente, NpvFlows[k])

C22_Witness ==
    /\ NpvCall /\ pc = "returned"
    /\ NumIsZero(parsed.params.v[s_rate])
    /\ Len(NpvFlows) >= 2
    /\ \E k \in 1..Len(NpvFlows) : NumLt(NpvFlows[k], Zero)
    /\ \E k \in 1..Len(NpvFlows) : NumGt(NpvFlows[k], Zero)
    /\ result.success

\* ------------------------------------------------------------------------
\* C23 For every initial > 0 and every numeric final, calculate_roi succeeds
\*     with roi == (final - initial) / initial, roi_percent == 100 * roi and
\*     profit_loss == final - initial, and the two inputs are echoed
\*     unchanged in the result.
\* ------------------------------------------------------------------------
RoiCall ==
    /\ CalculatorCalled /\ calculation_type.s \in roi_types
    /\ IsNum(parsed.params.v[s_initial]) /\ IsNum(parsed.params.v[s_final])
\* the number x is the quotient of the numbers a and b, b # 0
IsQuotient(x, a, b) == IsNum(x) /\ x.d # 0 /\ x.n * b.n * a.d = a.n * b.d * x.d
\* the number x is the difference a - b
IsDifference(x, a, b) == IsNum(x) /\ x.d # 0 /\ x.n * a.d * b.d = (a.n * b.d - b.n * a.d) * x.d

C23_RoiFormulas ==
    RoiCall /\ Positive(parsed.params.v[s_initial]) =>
        LET initial == parsed.params.v[s_initial]
            final == parsed.params.v[s_final]
            data == result.result
        IN /\ CalculatorReturned /\ result.success
           /\ IsDifference(data.profit_loss, final, initial)
           /\ IsQuotient(data.roi, data.profit_loss, initial)
           /\ IsQuotient(data.roi, data.roi_percent, Hundred)
           /\ data.initial_investment = initial
           /\ data.final_value = final

C23_Witness ==
    /\ RoiCall /\ pc = "returned"
    /\ Positive(parsed.params.v[s_initial])
    /\ NumLt(parsed.params.v[s_final], parsed.params.v[s_initial])
    /\ result.success
    /\ NumLt(result.result.roi_percent, Zero)

\* ------------------------------------------------------------------------
\* C24 Invocations are independent: whatever the interleaving of two or
\*     more invocations, and however often they are repeated, each one
\*     holds in its locals what it computes from its own query and returns
\*     what execute_financial_calculation returns for that query alone; no
\*     value written by one invocation is read by another.
\* ------------------------------------------------------------------------
\* the locals of invocation c are those of a run of its query alone
OwnLocals(c) ==
    LET f == Frame(c)
        alone == parse_calculation_request(query[c])
    IN /\ pc[c] \notin {"idle", "called"} => parsed[f] = alone
       /\ pc[c] \in {"resolved", "checked", "calculated", "formatting"} =>
             calculation_type[f] = ResolveType(alone.params)
       /\ pc[c] \in {"calculated", "formatting"} =>
             \E solver \in IrrOutcomes :
                 result[f] = CallCalculator(ResolveType(alone.params).s, alone.params, solver)
\* an invocation that ended returned what its query returns alone
OwnAnswer(c) ==
    pc[c] \in {"returned", "raised"} =>
        \E solver \in IrrOutcomes :
            returned[c] = execute_financial_calculation(query[c], solver)

C24_Independent == \A c \in Calls : OwnLocals(c) /\ OwnAnswer(c)

\* two invocations in flight with different queries, one ended while the
\* other holds a result it has not rendered yet
C24_Witness ==
    /\ pc[1] = "returned" /\ pc[2] = "calculated"
    /\ query[1] # query[2]
    /\ result[Frame(1)] # PyNone /\ result[Frame(2)] # PyNone
    /\ result[Frame(1)] # result[Frame(2)]

\* ------------------------------------------------------------------------
\* C25 Formatting is a read-only projection: for every calculation type,
\*     once the narrative is rendered the structured result (amortization
\*     sample, cash-flow list, ratio values included) is still what the
\*     calculator returned, and the request parameters are untouched.
\* ------------------------------------------------------------------------
\* the invocation rendered a narrative from a successful result
Rendered == pc = "returned" /\ result # PyNone /\ result.success

C25_FormattingReadsOnly ==
    Rendered =>
        /\ \E solver \in IrrOutcomes :
              result = CallCalculator(calculation_type.s, parsed.params, solver)
        /\ parsed = parse_calculation_request(query)
        /\ returned = Text(FormatResponse(calculation_type.s, result.result))

C25_Witness ==
    /\ Rendered /\ calculation_type.s \in loan_types
    /\ Len(result.result.amortization_sample) = 10
    /\ returned.kind = "text"

\* ------------------------------------------------------------------------
\* C26 Every entry of the returned amortization sample has a remaining
\*     balance >= 0, a payment equal to its principal component plus its
\*     interest component, and an interest equal to the balance before the
\*     period times the monthly rate; the reported balances do not increase
\*     from one retained period to the next.
\* ------------------------------------------------------------------------
C26_SampleEntries ==
    LoanSuccess =>
        LET data == result.result
            sample == data.amortization_sample
            monthly_rate == MonthlyRate(parsed.params.v[s_rate])
        IN /\ \A i \in 1..Len(sample) :
                 /\ NumGe(sample[i].balance_restante, Zero)
                 /\ SameValue(sample[i].pago,
                              NumAdd(sample[i].principal, sample[i].interes))
                 /\ SameValue(sample[i].interes,
                              NumMul(BalanceAfter(sample[i].periodo - 1,
                                                  parsed.params.v[s_principal],
                                                  monthly_rate, data.monthly_payment),
                                     monthly_rate))
           /\ \A i \in 1..(Len(sample) - 1) :
                 NumLe(sample[i + 1].balance_restante, sample[i].balance_restante)

C26_Witness ==
    /\ LoanSuccess /\ pc = "returned"
    /\ Len(result.result.amortization_sample) = 10
    /\ result.result.amortization_sample[6].periodo > 6
    /\ NumGt(result.result.amortization_sample[6].interes, Zero)
    /\ NumIsZero(result.result.amortization_sample[10].balance_restante)

\* ------------------------------------------------------------------------
\* C27 For a known ratio and every list of numbers with at least the
\*     required number of values, calculate_financial_ratio returns a
\*     success or a failure and never raises: the values beyond the labels
\*     of the ratio are ignored, and the echoed `values` mapping has exactly
\*     one entry per label.
\* ------------------------------------------------------------------------
LabelCount == IF RatioName = s_quick THEN 3 ELSE 2
\* a known ratio called with a list of at least the required numbers
EnoughValuesGiven ==
    /\ RatioCall /\ KnownName
    /\ parsed.params.v[s_values].t = "list"
    /\ Len(RatioValues) >= LabelCount
    /\ \A i \in 1..Len(RatioValues) : IsNum(RatioValues[i])
OneEntryPerLabel ==
    /\ CalculatorReturned
    /\ result.success =>
          /\ Len(result.result.values) = LabelCount
          /\ \A i \in 1..LabelCount : result.result.values[i][2] = RatioValues[i]

C27_ExtraValuesIgnored == EnoughValuesGiven => OneEntryPerLabel

\* the same for the calls with exactly as many values as labels
C27_ExactCountReturns == RequiredValuesGiven => OneEntryPerLabel

\* ------------------------------------------------------------------------
\* C28 In the rendered loan narrative the schedule lines are those of the
\*     sample, in ascending period order, and the line "..." appears, once
\*     and directly after the line of period 5, if and only if at least one
\*     simulated period was left out of the sample; when the sample holds
\*     every simulated period there is no ellipsis.
\* ------------------------------------------------------------------------
LoanRendered == LoanSuccess /\ pc = "returned" /\ returned.kind = "text"
\* the lines after the nine lines of the heading
ScheduleLines == SubSeq(returned.lines, 10, Len(returned.lines))
IsEllipsis(line) == line = <<Lit("...")>>
EllipsisAt == {i \in 1..Len(ScheduleLines) : IsEllipsis(ScheduleLines[i])}
PeriodLines == SelectSeq(ScheduleLines, LAMBDA line : ~IsEllipsis(line))
\* the number of periods the loop simulated
Simulated == parsed.params.v[s_periods].n \div parsed.params.v[s_periods].d
SomePeriodOmitted == Len(result.result.amortization_sample) < Simulated
ScheduleInOrder ==
    LET sample == result.result.amortization_sample
    IN /\ Len(PeriodLines) = Len(sample)
       /\ \A i \in 1..Len(sample) :
             /\ PeriodLines[i][1] = Lit("Periodo ")
             /\ PeriodLines[i][2].n = sample[i].periodo
       /\ \A i \in 1..(Len(sample) - 1) : sample[i].periodo < sample[i + 1].periodo
EllipsisIffOmitted ==
    IF SomePeriodOmitted
    THEN /\ Cardinality(EllipsisAt) = 1
         /\ \A i \in EllipsisAt : i > 1 /\ ScheduleLines[i - 1][2].n = 5
    ELSE EllipsisAt = {}

C28_EllipsisIffOmitted == LoanRendered => ScheduleInOrder /\ EllipsisIffOmitted

\* the same for the loans of a whole number of periods
C28_WholePeriodsEllipsis == LoanRendered /\ WholePeriods => C28_EllipsisIffOmitted

\* ------------------------------------------------------------------------
\* C29 Compound-interest frequency: the frequency name is matched without
\*     regard to case against annual 1, semiannual 2, quarterly 4, monthly
\*     12, daily 365; an absent frequency is annual; a name outside the set
\*     is not rejected but computed with factor 1, and the result echoes the
\*     name as supplied; with factor 1 and periods = 1 the final amount is
\*     principal * (1 + rate / 100).
\* ------------------------------------------------------------------------
\* the compound-interest calculator was called with valid numbers and a
\* frequency that is absent or a string
CompoundCall ==
    /\ CalculatorCalled /\ calculation_type.s \in compound_types
    /\ Positive(parsed.params.v[s_principal]) /\ Positive(parsed.params.v[s_rate])
    /\ IsNum(parsed.params.v[s_periods])
    /\ s_frequency \in DOMAIN parsed.params.v => IsStr(parsed.params.v[s_frequency])
FrequencyGiven == s_frequency \in DOMAIN parsed.params.v
FrequencyTable ==
    {<<s_annual, 1>>, <<s_semiannual, 2>>, <<s_quarterly, 4>>, <<s_monthly, 12>>, <<s_daily, 365>>}
\* the factor the claim gives the frequency of the call
FactorOfCall ==
    IF ~FrequencyGiven THEN 1
    ELSE IF \E e \in FrequencyTable : e[1] = Lower(parsed.params.v[s_frequency].s)
         THEN (CHOOSE e \in FrequencyTable : e[1] = Lower(parsed.params.v[s_frequency].s))[2]
         ELSE 1

C29_FrequencyResolution ==
    CompoundCall =>
        /\ CalculatorReturned /\ result.success
        /\ result.result.compound_frequency = PyInt(FactorOfCall)
        /\ result.result.frequency =
              (IF FrequencyGiven THEN parsed.params.v[s_frequency] ELSE PyStr(s_annual))
        /\ (FactorOfCall = 1 /\ SameValue(parsed.params.v[s_periods], PyInt(1))) =>
              SameValue(result.result.final_amount,
                        NumMul(parsed.params.v[s_principal],
                               NumAdd(PyInt(1), NumDiv(parsed.params.v[s_rate], Hundred))))

C29_Witness ==
    /\ CompoundCall /\ FrequencyGiven /\ pc = "returned"
    /\ parsed.params.v[s_frequency].s # Lower(parsed.params.v[s_frequency].s)
    /\ FactorOfCall > 1
    /\ result.success
    /\ NumGt(result.result.interest_earned, Zero)

\* ------------------------------------------------------------------------
\* C30: the chat history across button clicks and chat inputs
\* ------------------------------------------------------------------------
Messages == session_state.messages

Role(i) == Messages[i].role

IsPrefixOf(old, new) ==
    /\ Len(old) <= Len(new)
    /\ SubSeq(new, 1, Len(old)) = old

\* message i is a user message with exactly one assistant message after it
\* and before the next user message; the last message may wait for its
\* answer only while a run of the script is still in progress
AnsweredOnce(i) ==
    IF i = Len(Messages)
    THEN script.pc # "waiting"
    ELSE /\ Role(i + 1) = "assistant"
         /\ (i + 2 <= Len(Messages) => Role(i + 2) = "user")

\* C30: across any sequence of example-button clicks and chat inputs,
\* every user message of the history is followed by exactly one assistant
\* message before the next user message.
C30_EveryUserMessageAnsweredOnce ==
    \A i \in 1..Len(Messages) : Role(i) = "user" => AnsweredOnce(i)

\* C30, first part: a step of the session only appends to the history.
C30_MessagesOnlyAppended ==
    [][IsPrefixOf(Messages, Messages')]_vars

\* C30, last part: when a run reaches st.rerun() the pending query has been
\* cleared, and the message before the answer just added is that query.
C30_PendingClearedBeforeRerun ==
    script.pc = "rerun" =>
       /\ session_state.pending_query = PyNone
       /\ Len(Messages) >= 1
       /\ Messages[Len(Messages)].role = "assistant"

\* a history in which a chat input was left without an answer: two user
\* messages in a row
C30_TwoUserMessagesInARow ==
    \E i \in 1..(Len(Messages) - 1) : Role(i) = "user" /\ Role(i + 1) = "user"

====
